---------------------------- MODULE Spec2Model ----------------------------
(***************************************************************************)
(* Sector Indicator Engine: the Raw Table Normalizer (DatabaseLoader),     *)
(* the Indicator Calculator (IndicatorCalculator) and the Sector           *)
(* Classifier (SectorClassifier).                                          *)
(*                                                                         *)
(* Numbers are exact rationals [n, d] in lowest terms with d > 0; the      *)
(* rounding of the binary floating point the program computes with is not  *)
(* modelled.  Strings that the program inspects character by character     *)
(* (sector codes, indicator labels, raw cells) are sequences of            *)
(* one-character strings; the letters L-stroke and Z-dot are written       *)
(* "L_STROKE"/"l_stroke" and "Z_DOT"/"z_dot".  None is Python's None and    *)
(* NaN is a missing cell of a table read by pandas; a frame is the record  *)
(* of its rows.                                                            *)
(***************************************************************************)
EXTENDS Integers, Sequences, FiniteSets, TLC

None == [none |-> TRUE]
NaN == [nan |-> TRUE]
NoCategory == ""

\* a text as a raw cell of a table
Text(s) == [text |-> s]
IsText(cell) == DOMAIN cell = {"text"}

\* a pandas DataFrame with the given rows
DataFrame(rows) == [rows |-> rows]

(***************************************************************************)
(* Exact rational arithmetic.                                              *)
(***************************************************************************)
Abs(x) == IF x < 0 THEN -x ELSE x

RECURSIVE GCD(_, _)
GCD(a, b) == IF b = 0 THEN a ELSE GCD(b, a % b)

Rat(n, d) ==
    LET g == GCD(Abs(n), Abs(d))
        s == IF d < 0 THEN -1 ELSE 1
    IN  [n |-> s * (n \div g), d |-> s * (d \div g)]

Q(i) == [n |-> i, d |-> 1]

RAdd(a, b) ==
    LET g == GCD(a.d, b.d)
    IN  Rat(a.n * (b.d \div g) + b.n * (a.d \div g), a.d * (b.d \div g))

RNeg(a) == [n |-> -a.n, d |-> a.d]

RSub(a, b) == RAdd(a, RNeg(b))

RMul(a, b) ==
    LET g1 == GCD(Abs(a.n), b.d)
        g2 == GCD(Abs(b.n), a.d)
    IN  IF a.n = 0 \/ b.n = 0 THEN Q(0)
        ELSE [n |-> (a.n \div g1) * (b.n \div g2), d |-> (a.d \div g2) * (b.d \div g1)]

RInv(a) == IF a.n < 0 THEN [n |-> -a.d, d |-> -a.n] ELSE [n |-> a.d, d |-> a.n]

RDiv(a, b) == RMul(a, RInv(b))

RLt(a, b) == a.n * b.d < b.n * a.d

RLe(a, b) == a.n * b.d <= b.n * a.d

RMin(a, b) == IF RLe(a, b) THEN a ELSE b

RMax(a, b) == IF RLe(b, a) THEN a ELSE b

IsInt(a) == a.d = 1

\* Python's int(x) of a float: truncation toward zero.
Trunc(a) == IF a.n >= 0 THEN a.n \div a.d ELSE -((-a.n) \div a.d)

ZERO == Q(0)
ONE == Q(1)
HALF == Rat(1, 2)

VARIABLES
    pc,               \* position of the run
    pkd_code,         \* requested sector code
    years,            \* requested list of years
    columns,          \* year columns of wsk_fin.csv
    wsk_ok,           \* wsk_fin.csv exists, is not empty and has a PKD column
    nrows,            \* prefix-matching rows of wsk_fin.csv iterated so far
    wskaznik,         \* upper-cased label of the row being iterated
    yi,               \* index in years of the inner loop
    value,            \* parse_value of the cell just read
    result_by_year,   \* insertion-ordered dict year -> observed fields
    financial_df,     \* frame returned by load_financial_data
    krz_ok,           \* krz_pkd.csv exists, is not empty and its columns resolve
    krz_pkd,          \* rows of krz_pkd.csv read so far
    result,           \* insertion-ordered dict year -> bankruptcies
    bankruptcy_df,    \* frame returned by load_bankruptcy_data
    data,             \* a sector's series of records
    weights,          \* Weights of the configuration
    indicators,       \* dict returned by calculate_sector_indicators
    categories,       \* Classification.categories of the configuration
    category          \* value of the category column

VARIABLES
    wsk_fin_csv,      \* rows of wsk_fin.csv
    krz_pkd_csv,      \* rows of krz_pkd.csv
    runs,             \* series returned by the completed runs of the loader
    pkd_codes,        \* list of sector codes requested from collect_all_data
    code_i,           \* number of codes of pkd_codes iterated so far
    results,          \* collect_all_data: insertion-ordered dict code -> series
    skipped,          \* collect_all_data: list of skipped codes
    sector_data,      \* dict code -> series passed to calculate_indicators
    calc_results,     \* calculate_all_indicators: list of indicator dicts so far
    indicators_df,    \* table of indicators, then with the category column
    results_df,       \* table returned by prepare_final_results
    error,            \* exception that left the call, None when there is none
    exported,         \* export_results has been called
    returned,         \* value returned by validate_sector_data / load_config
    log               \* warnings logged by validate_sector_data / load_config

vars == <<pc, pkd_code, years, columns, wsk_ok, nrows, wskaznik, yi, value,
          result_by_year, financial_df, krz_ok, krz_pkd, result, bankruptcy_df,
          data, weights, indicators, categories, category,
          wsk_fin_csv, krz_pkd_csv, runs, pkd_codes, code_i, results, skipped,
          sector_data, calc_results, indicators_df, results_df, error, exported,
          returned, log>>

tableVars == <<wsk_fin_csv, krz_pkd_csv>>

batchVars == <<pkd_codes, code_i, results, skipped, sector_data, calc_results,
               indicators_df, results_df, error, exported>>

serviceVars == <<returned, log>>

\* what a run of the loader, the calculator or the classifier on one sector leaves alone
outerVars == <<tableVars, runs, batchVars, serviceVars>>

\* the tables are not read and no batch or service call is under way
BatchIdle ==
    /\ wsk_fin_csv = <<>>
    /\ krz_pkd_csv = <<>>
    /\ runs = <<>>
    /\ pkd_codes = <<>>
    /\ code_i = 0
    /\ results = <<>>
    /\ skipped = <<>>
    /\ sector_data = <<>>
    /\ calc_results = <<>>
    /\ indicators_df = None
    /\ results_df = None
    /\ error = None
    /\ exported = FALSE
    /\ returned = None
    /\ log = <<>>

loaderVars == <<pkd_code, years, columns, wsk_ok, nrows, wskaznik, yi, value,
                result_by_year, financial_df, krz_ok, krz_pkd, result, bankruptcy_df>>

LoaderIdle ==
    /\ pkd_code = <<>>
    /\ years = <<>>
    /\ columns = {}
    /\ wsk_ok = FALSE
    /\ nrows = 0
    /\ wskaznik = <<>>
    /\ yi = 0
    /\ value = None
    /\ result_by_year = <<>>
    /\ financial_df = None
    /\ krz_ok = FALSE
    /\ krz_pkd = <<>>
    /\ result = <<>>
    /\ bankruptcy_df = None

(***************************************************************************)
(* SectorClassifier.classify_sectors                                       *)
(***************************************************************************)
FALLBACK == "Bardzo slaba kondycja"

\* sorted(self.categories, key=min_score, reverse=True): a stable sort, which
\* keeps the list order of categories with equal min_score.
RECURSIVE InsertDesc(_, _)
InsertDesc(c, s) ==
    IF s = <<>> THEN <<c>>
    ELSE IF RLt(Head(s).min_score, c.min_score) THEN <<c>> \o s
    ELSE <<Head(s)>> \o InsertDesc(c, Tail(s))

RECURSIVE InsertAsc(_, _)
InsertAsc(c, s) ==
    IF s = <<>> THEN <<c>>
    ELSE IF RLt(c.min_score, Head(s).min_score) THEN <<c>> \o s
    ELSE <<Head(s)>> \o InsertAsc(c, Tail(s))

RECURSIVE SortedAscending(_)
SortedAscending(cats) ==
    IF cats = <<>> THEN <<>>
    ELSE InsertAsc(cats[Len(cats)], SortedAscending(SubSeq(cats, 1, Len(cats) - 1)))

RECURSIVE SortedDescending(_)
SortedDescending(cats) ==
    IF cats = <<>> THEN <<>>
    ELSE InsertDesc(cats[Len(cats)], SortedDescending(SubSeq(cats, 1, Len(cats) - 1)))

RECURSIVE FirstNotBelow(_, _)
FirstNotBelow(score, sorted) ==
    IF sorted = <<>> THEN FALLBACK
    ELSE IF RLe(score, Head(sorted).min_score) THEN Head(sorted).name
    ELSE FirstNotBelow(score, Tail(sorted))

RECURSIVE FirstSatisfied(_, _)
FirstSatisfied(score, sorted) ==
    IF sorted = <<>> THEN FALLBACK
    ELSE IF RLe(Head(sorted).min_score, score) THEN Head(sorted).name
    ELSE FirstSatisfied(score, Tail(sorted))

assign_category(score, cats) == FirstSatisfied(score, SortedDescending(cats))

classify_sectors ==
    /\ pc = "classify"
    /\ category' = assign_category(indicators.final_index, categories)
    /\ pc' = "done"
    /\ UNCHANGED <<outerVars, loaderVars, data, weights, indicators, categories>>


(***************************************************************************)
(* IndicatorCalculator                                                     *)
(***************************************************************************)
\* the rows of a frame in the order they were given
InputOrder(df) == df

\* data.sort_values('year'): ascending by year (the years of a series differ).
RECURSIVE InsertByYear(_, _)
InsertByYear(r, s) ==
    IF s = <<>> THEN <<r>>
    ELSE IF r.year < Head(s).year THEN <<r>> \o s
    ELSE <<Head(s)>> \o InsertByYear(r, Tail(s))

RECURSIVE sort_values_year(_)
sort_values_year(df) ==
    IF df = <<>> THEN <<>>
    ELSE InsertByYear(df[Len(df)], sort_values_year(SubSeq(df, 1, Len(df) - 1)))

NoClamp(x) == x

\* min(1.0, max(0.0, x)) and max(0.0, min(1.0, x))
Clamp01(x) == RMin(ONE, RMax(ZERO, x))

Column(r, column) ==
    CASE column = "revenue" -> r.revenue
      [] column = "profit" -> r.profit
      [] column = "assets" -> r.assets

calculate_yoy_growth(df, column) ==
    IF Len(df) < 2 THEN ZERO
    ELSE LET latest == Column(df[Len(df)], column)
             previous == Column(df[Len(df) - 1], column)
         IN  IF previous = ZERO THEN ZERO
             ELSE RDiv(RSub(latest, previous), previous)

size_score_unclamped(df) ==
    IF Len(df) = 0 THEN ZERO
    ELSE LET latest == df[Len(df)]
         IN  RDiv(RAdd(RAdd(RDiv(latest.revenue, Q(10000000)),
                            RDiv(latest.assets, Q(20000000))),
                       RDiv(latest.num_companies, Q(10000))),
                  Q(3))

calculate_size_score(df) ==
    IF Len(df) = 0 THEN ZERO
    ELSE LET latest == df[Len(df)]
             size_metric ==
                 RDiv(RAdd(RAdd(RDiv(latest.revenue, Q(10000000)),
                                RDiv(latest.assets, Q(20000000))),
                           RDiv(latest.num_companies, Q(10000))),
                      Q(3))
         IN  Clamp01(size_metric)

growth_score_zero_default(df) ==
    IF Len(df) < 2 THEN ZERO
    ELSE LET avg_growth ==
                 RDiv(RAdd(RAdd(calculate_yoy_growth(df, "revenue"),
                                calculate_yoy_growth(df, "profit")),
                           calculate_yoy_growth(df, "assets")),
                      Q(3))
         IN  Clamp01(RDiv(RAdd(avg_growth, Rat(1, 10)), Rat(3, 10)))

growth_score_unshifted(df) ==
    IF Len(df) < 2 THEN HALF
    ELSE LET avg_growth ==
                 RDiv(RAdd(RAdd(calculate_yoy_growth(df, "revenue"),
                                calculate_yoy_growth(df, "profit")),
                           calculate_yoy_growth(df, "assets")),
                      Q(3))
         IN  Clamp01(RDiv(avg_growth, Rat(3, 10)))

calculate_growth_score(df) ==
    IF Len(df) < 2 THEN HALF
    ELSE LET revenue_growth == calculate_yoy_growth(df, "revenue")
             profit_growth == calculate_yoy_growth(df, "profit")
             assets_growth == calculate_yoy_growth(df, "assets")
             avg_growth == RDiv(RAdd(RAdd(revenue_growth, profit_growth), assets_growth), Q(3))
         IN  Clamp01(RDiv(RAdd(avg_growth, Rat(1, 10)), Rat(3, 10)))

calculate_profit_margin(df) ==
    IF Len(df) = 0 THEN ZERO
    ELSE LET latest == df[Len(df)]
         IN  IF RLt(ZERO, latest.revenue) THEN RDiv(latest.profit, latest.revenue) ELSE ZERO

calculate_profitability_score(df) ==
    IF Len(df) = 0 THEN ZERO
    ELSE LET latest == df[Len(df)]
             profit_margin ==
                 IF RLt(ZERO, latest.revenue) THEN RDiv(latest.profit, latest.revenue) ELSE ZERO
         IN  Clamp01(RMul(profit_margin, Q(10)))

debt_to_assets_earliest(df) ==
    IF Len(df) = 0 THEN ZERO
    ELSE LET earliest == df[1]
         IN  IF RLt(ZERO, earliest.assets) THEN RDiv(earliest.debt, earliest.assets) ELSE ZERO

calculate_debt_to_assets(df) ==
    IF Len(df) = 0 THEN ZERO
    ELSE LET latest == df[Len(df)]
         IN  IF RLt(ZERO, latest.assets) THEN RDiv(latest.debt, latest.assets) ELSE ZERO

calculate_debt_score(df) ==
    IF Len(df) = 0 THEN HALF
    ELSE LET latest == df[Len(df)]
             debt_to_assets ==
                 IF RLt(ZERO, latest.assets) THEN RDiv(latest.debt, latest.assets) ELSE ZERO
         IN  Clamp01(RSub(ONE, debt_to_assets))

calculate_bankruptcy_rate(df) ==
    IF Len(df) = 0 THEN ZERO
    ELSE LET latest == df[Len(df)]
         IN  IF RLt(ZERO, latest.num_companies)
             THEN RDiv(latest.bankruptcies, latest.num_companies) ELSE ZERO

calculate_risk_score(df) ==
    IF Len(df) = 0 THEN HALF
    ELSE LET latest == df[Len(df)]
             bankruptcy_rate ==
                 IF RLt(ZERO, latest.num_companies)
                 THEN RDiv(latest.bankruptcies, latest.num_companies) ELSE ZERO
         IN  Clamp01(RSub(ONE, RMul(bankruptcy_rate, Q(10))))

WeightSum(w) == RAdd(RAdd(RAdd(RAdd(w.size, w.growth), w.profitability), w.debt), w.risk)

weighted_sum(size_score, growth_score, profitability_score, debt_score, risk_score, w) ==
    RAdd(RAdd(RAdd(RAdd(RMul(size_score, w.size),
                        RMul(growth_score, w.growth)),
                   RMul(profitability_score, w.profitability)),
              RMul(debt_score, w.debt)),
         RMul(risk_score, w.risk))

final_index_renormalized(size_score, growth_score, profitability_score, debt_score, risk_score, w) ==
    IF WeightSum(w) = ZERO
    THEN weighted_sum(size_score, growth_score, profitability_score, debt_score, risk_score, w)
    ELSE RDiv(weighted_sum(size_score, growth_score, profitability_score, debt_score, risk_score, w),
              WeightSum(w))

final_index(size_score, growth_score, profitability_score, debt_score, risk_score, w) ==
    RAdd(RAdd(RAdd(RAdd(RMul(size_score, w.size),
                        RMul(growth_score, w.growth)),
                   RMul(profitability_score, w.profitability)),
              RMul(debt_score, w.debt)),
         RMul(risk_score, w.risk))

calculate_sector_indicators_of(code, df, w) ==
    LET sorted == sort_values_year(df)
        size_score == calculate_size_score(sorted)
        growth_score == calculate_growth_score(sorted)
        profitability_score == calculate_profitability_score(sorted)
        debt_score == calculate_debt_score(sorted)
        risk_score == calculate_risk_score(sorted)
    IN  [pkd_code |-> code,
         size_score |-> size_score,
         growth_score |-> growth_score,
         profitability_score |-> profitability_score,
         debt_score |-> debt_score,
         risk_score |-> risk_score,
         final_index |-> final_index(size_score, growth_score, profitability_score,
                                     debt_score, risk_score, w),
         revenue_growth_yoy |-> calculate_yoy_growth(sorted, "revenue"),
         profit_growth_yoy |-> calculate_yoy_growth(sorted, "profit"),
         profit_margin |-> calculate_profit_margin(sorted),
         debt_to_assets |-> calculate_debt_to_assets(sorted),
         bankruptcy_rate |-> calculate_bankruptcy_rate(sorted),
         num_companies |-> IF Len(sorted) > 0 THEN sorted[Len(sorted)].num_companies ELSE ZERO]

calculate_sector_indicators ==
    /\ pc = "calculate"
    /\ indicators' = calculate_sector_indicators_of(pkd_code, data.rows, weights)
    /\ pc' = "classify"
    /\ UNCHANGED <<outerVars, loaderVars, data, weights, categories, category>>


(***************************************************************************)
(* Inputs of the calculator and of the classifier.                         *)
(***************************************************************************)
MaxLen == 2
MaxCats == 3

\* Weights() of src/models/config.py
DefaultWeights ==
    [size |-> Rat(1, 5), growth |-> Rat(1, 4), profitability |-> Rat(1, 5),
     debt |-> Rat(3, 20), risk |-> Rat(1, 5)]

\* the default weights, weights that sum to more than 1, and weights with zeros that
\* sum to less than 1
WeightTuples ==
    { DefaultWeights,
      [size |-> HALF, growth |-> HALF, profitability |-> HALF, debt |-> HALF, risk |-> HALF],
      [size |-> ZERO, growth |-> HALF, profitability |-> Rat(1, 4), debt |-> ZERO,
       risk |-> Rat(1, 10)] }

\* the categories of the sample configuration of tests/test_services.py
TestCategories ==
    << [name |-> "Bardzo dobra kondycja", min_score |-> Rat(3, 4)],
       [name |-> "Dobra kondycja", min_score |-> Rat(3, 5)] >>

CategoryPool ==
    { [name |-> "Bardzo dobra kondycja", min_score |-> Rat(3, 4)],
      [name |-> "Dobra kondycja", min_score |-> Rat(3, 5)],
      [name |-> "Srednia kondycja", min_score |-> Rat(3, 5)],
      [name |-> "Slaba kondycja", min_score |-> Rat(3, 10)] }

CategoryLists == UNION { [1..k -> CategoryPool] : k \in 0..MaxCats }

IndexValues ==
    { Rat(-1, 10), ZERO, Rat(3, 10), HALF, Rat(3, 5), Rat(7, 10), Rat(3, 4), ONE, Rat(6, 5) }

SampleCode == <<"6", "2">>

\* <<revenue, profit>>, <<debt, assets>> and <<bankruptcies, num_companies>> of a
\* record: regular values, values beyond either end of a score, and the zero and
\* negative denominators
RevenueProfit ==
    { <<10000000, 1000000>>, <<12000000, -500000>>, <<12000000, 3000000>>,
      <<-12500000, -1000000>> }

DebtAssets ==
    { <<8000000, 20000000>>, <<30000000, 20000000>>, <<-1000000, 20000000>>,
      <<-1000000, 0>> }

BankruptciesCompanies ==
    { <<50, 5000>>, <<2000, 5000>>, <<-5, 5000>>, <<3, 0>> }

\* the records before the last year of the pool differ in the columns read from
\* an earlier record (revenue, profit, assets)
EarlierDebtAssets == { <<8000000, 20000000>>, <<-1000000, 0>> }

EarlierBankruptciesCompanies == { <<50, 5000>> }

Record(y, rp, da, bc) ==
    [year |-> y, revenue |-> Q(rp[1]), profit |-> Q(rp[2]), assets |-> Q(da[2]),
     debt |-> Q(da[1]), bankruptcies |-> Q(bc[1]), num_companies |-> Q(bc[2])]

SeriesYears == 2021..(2020 + MaxLen)

RecordsOf(y) ==
    IF y = 2020 + MaxLen
    THEN { Record(y, rp, da, bc) :
             rp \in RevenueProfit, da \in DebtAssets, bc \in BankruptciesCompanies }
    ELSE { Record(y, rp, da, bc) :
             rp \in RevenueProfit, da \in EarlierDebtAssets,
             bc \in EarlierBankruptciesCompanies }

\* series of at most MaxLen records of different years, in any order
SeriesInputs ==
    UNION { { s \in [1..k -> UNION { RecordsOf(y) : y \in SeriesYears }] :
                \A i, j \in 1..k : i # j => s[i].year # s[j].year }
            : k \in 0..MaxLen }

InitCalc ==
    /\ BatchIdle
    /\ LoaderIdle
    /\ pc = "calculate"
    /\ data \in { DataFrame(s) : s \in SeriesInputs }
    /\ weights \in WeightTuples
    /\ indicators = None
    /\ categories = TestCategories
    /\ category = NoCategory

NextCalc == calculate_sector_indicators

SpecCalc == InitCalc /\ [][NextCalc]_vars

InitClassify ==
    /\ BatchIdle
    /\ LoaderIdle
    /\ pc = "classify"
    /\ data = DataFrame(<<>>)
    /\ weights = DefaultWeights
    /\ indicators \in { [pkd_code |-> SampleCode, final_index |-> v] : v \in IndexValues }
    /\ categories \in CategoryLists
    /\ category = NoCategory

NextClassify == classify_sectors

SpecClassify == InitClassify /\ [][NextClassify]_vars


(***************************************************************************)
(* Strings                                                                 *)
(***************************************************************************)
LowerCase ==
    <<"a", "b", "c", "d", "e", "f", "g", "h", "i", "j", "k", "l", "m", "n", "o", "p", "q",
      "r", "s", "t", "u", "v", "w", "x", "y", "z", "l_stroke", "z_dot">>

UpperCase ==
    <<"A", "B", "C", "D", "E", "F", "G", "H", "I", "J", "K", "L", "M", "N", "O", "P", "Q",
      "R", "S", "T", "U", "V", "W", "X", "Y", "Z", "L_STROKE", "Z_DOT">>

UpperChar(c) ==
    IF \E i \in DOMAIN LowerCase : LowerCase[i] = c
    THEN UpperCase[CHOOSE i \in DOMAIN LowerCase : LowerCase[i] = c]
    ELSE c

\* str.upper()
Upper(s) == [i \in 1..Len(s) |-> UpperChar(s[i])]

\* str.startswith(prefix)
StartsWith(s, prefix) == Len(s) >= Len(prefix) /\ SubSeq(s, 1, Len(prefix)) = prefix

\* kw in s
Contains(s, kw) == \E i \in 1..(Len(s) - Len(kw) + 1) : SubSeq(s, i, i + Len(kw) - 1) = kw

\* str.replace(old, new) for a one-character old
Replace(s, old, new) == [i \in 1..Len(s) |-> IF s[i] = old THEN new ELSE s[i]]

\* str.replace(old, '') for a one-character old
RECURSIVE Remove(_, _)
Remove(s, old) ==
    IF s = <<>> THEN <<>>
    ELSE IF Head(s) = old THEN Remove(Tail(s), old)
    ELSE <<Head(s)>> \o Remove(Tail(s), old)

Digits == <<"0", "1", "2", "3", "4", "5", "6", "7", "8", "9">>

IsDigit(c) == \E i \in DOMAIN Digits : Digits[i] = c

DigitValue(c) == (CHOOSE i \in DOMAIN Digits : Digits[i] = c) - 1

RECURSIVE DigitsValue(_)
DigitsValue(s) ==
    IF s = <<>> THEN 0 ELSE 10 * DigitsValue(SubSeq(s, 1, Len(s) - 1)) + DigitValue(s[Len(s)])

RECURSIVE Pow10(_)
Pow10(k) == IF k = 0 THEN 1 ELSE 10 * Pow10(k - 1)

\* float(s) for the decimal notation [sign] digits [. digits]; None stands for
\* the ValueError of any other text.
ParseFloat(s) ==
    LET signed == s # <<>> /\ Head(s) \in {"-", "+"}
        body == IF signed THEN Tail(s) ELSE s
        dots == { i \in 1..Len(body) : body[i] = "." }
        ok == /\ Cardinality(dots) <= 1
              /\ \A i \in 1..Len(body) : IsDigit(body[i]) \/ body[i] = "."
              /\ \E i \in 1..Len(body) : IsDigit(body[i])
        dot == IF dots = {} THEN Len(body) + 1 ELSE CHOOSE i \in dots : TRUE
        whole == SubSeq(body, 1, dot - 1)
        frac == SubSeq(body, dot + 1, Len(body))
        magnitude == Rat(DigitsValue(whole \o frac), Pow10(Len(frac)))
    IN  IF ~ok THEN None
        ELSE IF signed /\ Head(s) = "-" THEN RNeg(magnitude) ELSE magnitude

\* int(s) of a text: [sign] digits; None stands for the ValueError.
ParseInt(s) ==
    LET signed == s # <<>> /\ Head(s) \in {"-", "+"}
        body == IF signed THEN Tail(s) ELSE s
    IN  IF body = <<>> \/ \E i \in 1..Len(body) : ~IsDigit(body[i]) THEN None
        ELSE IF signed /\ Head(s) = "-" THEN Q(-DigitsValue(body)) ELSE Q(DigitsValue(body))

(***************************************************************************)
(* DatabaseLoader.load_financial_data                                      *)
(***************************************************************************)
MaxFinRows == 2

\* pkd_code[:2] if len(pkd_code) >= 2 else pkd_code
pkd_code_short(code) == IF Len(code) >= 2 THEN SubSeq(code, 1, 2) ELSE code

\* A raw cell is NaN (missing) or the text str(val) of the cell.
parse_value(val) ==
    IF val = NaN THEN None
    ELSE ParseFloat(Replace(Remove(Replace(val.text, "NBSP", " "), " "), ",", "."))

EmptyFields ==
    [revenue |-> None, profit |-> None, assets |-> None, debt |-> None, num_companies |-> None]

HasYear(dict, year) == \E i \in DOMAIN dict : dict[i].year = year

IndexOfYear(dict, year) == CHOOSE i \in DOMAIN dict : dict[i].year = year

NoField == ""

FieldOfLastMatch(label) ==
    IF \/ Contains(label, <<"L", "I", "C", "Z", "B", "A">>)
       \/ Contains(label, <<"E", "N">>)
    THEN "num_companies"
    ELSE IF \/ Contains(label, <<"Z", "A", "D", "L_STROKE", "U", "Z_DOT", "E", "N", "I", "E">>)
            \/ Contains(label, <<"D", "E", "B", "T">>)
            \/ Contains(label, <<"D", "L_STROKE", "U", "G">>)
    THEN "debt"
    ELSE IF \/ Contains(label, <<"A", "K", "T", "Y", "W", "A">>)
            \/ Contains(label, <<"A", "S", "S", "E", "T", "S">>)
    THEN "assets"
    ELSE IF \/ Contains(label, <<"Z", "Y", "S", "K">>)
            \/ Contains(label, <<"P", "R", "O", "F", "I", "T">>)
            \/ Contains(label, <<"N", "P">>)
            \/ Contains(label, <<"W", "Y", "N", "I", "K">>)
    THEN "profit"
    ELSE IF \/ Contains(label, <<"P", "R", "Z", "Y", "C", "H", "O", "D">>)
            \/ Contains(label, <<"R", "E", "V", "E", "N", "U", "E">>)
            \/ Contains(label, <<"G", "S">>)
    THEN "revenue"
    ELSE NoField

\* the field that the if/elif chain over the label selects, NoField when no keyword
\* is found
FieldOf(label) ==
    IF \/ Contains(label, <<"P", "R", "Z", "Y", "C", "H", "O", "D">>)
       \/ Contains(label, <<"R", "E", "V", "E", "N", "U", "E">>)
       \/ Contains(label, <<"G", "S">>)
    THEN "revenue"
    ELSE IF \/ Contains(label, <<"Z", "Y", "S", "K">>)
            \/ Contains(label, <<"P", "R", "O", "F", "I", "T">>)
            \/ Contains(label, <<"N", "P">>)
            \/ Contains(label, <<"W", "Y", "N", "I", "K">>)
    THEN "profit"
    ELSE IF \/ Contains(label, <<"A", "K", "T", "Y", "W", "A">>)
            \/ Contains(label, <<"A", "S", "S", "E", "T", "S">>)
    THEN "assets"
    ELSE IF \/ Contains(label, <<"Z", "A", "D", "L_STROKE", "U", "Z_DOT", "E", "N", "I", "E">>)
            \/ Contains(label, <<"D", "E", "B", "T">>)
            \/ Contains(label, <<"D", "L_STROKE", "U", "G">>)
    THEN "debt"
    ELSE IF \/ Contains(label, <<"L", "I", "C", "Z", "B", "A">>)
            \/ Contains(label, <<"E", "N">>)
    THEN "num_companies"
    ELSE NoField

value_scaled_inclusive(v) == IF RLe(v, Q(1000000)) THEN RMul(v, Q(1000)) ELSE v

\* value * 1000 if value < 1000000 else value
value_scaled(v) == IF RLt(v, Q(1000000)) THEN RMul(v, Q(1000)) ELSE v

\* what the row stores for its field: the scaled value, int(value) for the count
Stored(field, v) == IF field = "num_companies" THEN Q(Trunc(v)) ELSE value_scaled(v)

SetLast(fields, field, v) == [fields EXCEPT ![field] = v]

SetIfNone(fields, field, v) ==
    IF fields[field] = None THEN [fields EXCEPT ![field] = v] ELSE fields

StoreValueIfClassified(dict, year, label, v) ==
    LET withYear == IF HasYear(dict, year) THEN dict
                    ELSE Append(dict, [year |-> year, fields |-> EmptyFields])
        i == IndexOfYear(withYear, year)
        field == FieldOf(label)
    IN  IF field = NoField THEN dict
        ELSE [withYear EXCEPT ![i].fields = SetIfNone(@, field, Stored(field, v))]

\* lines 101-126 for one cell with a value > 0
StoreValue(dict, year, label, v) ==
    LET withYear == IF HasYear(dict, year) THEN dict
                    ELSE Append(dict, [year |-> year, fields |-> EmptyFields])
        i == IndexOfYear(withYear, year)
        field == FieldOf(label)
    IN  IF field = NoField THEN withYear
        ELSE [withYear EXCEPT ![i].fields = SetIfNone(@, field, Stored(field, v))]

\* Python truth of an Optional number
Truthy(x) == x # None /\ x # ZERO

ImputeRevenueDefault(fields) ==
    LET revenue == IF Truthy(fields.revenue) THEN fields.revenue ELSE Q(1000000)
        profit == IF Truthy(fields.profit) THEN fields.profit ELSE RMul(revenue, Rat(2, 25))
        assets == IF Truthy(fields.assets) THEN fields.assets ELSE RMul(revenue, Rat(9, 5))
        debt == IF Truthy(fields.debt) THEN fields.debt ELSE RMul(assets, Rat(2, 5))
        num_companies == IF Truthy(fields.num_companies) THEN fields.num_companies ELSE Q(1000)
    IN  [revenue |-> revenue, profit |-> profit, assets |-> assets, debt |-> debt,
         num_companies |-> num_companies]

ImputeDebtOfRevenue(fields) ==
    LET revenue == IF Truthy(fields.revenue) THEN fields.revenue
                   ELSE IF Truthy(fields.profit) THEN RMul(fields.profit, Rat(25, 2))
                   ELSE Q(1000000)
        profit == IF Truthy(fields.profit) THEN fields.profit
                  ELSE IF Truthy(revenue) THEN RMul(revenue, Rat(2, 25)) ELSE ZERO
        assets == IF Truthy(fields.assets) THEN fields.assets
                  ELSE IF Truthy(revenue) THEN RMul(revenue, Rat(9, 5)) ELSE Q(2000000)
        debt == IF Truthy(fields.debt) THEN fields.debt
                ELSE IF Truthy(revenue) THEN RMul(revenue, Rat(2, 5)) ELSE Q(800000)
        num_companies == IF Truthy(fields.num_companies) THEN fields.num_companies ELSE Q(1000)
    IN  [revenue |-> revenue, profit |-> profit, assets |-> assets, debt |-> debt,
         num_companies |-> num_companies]

\* lines 130-134
Impute(fields) ==
    LET revenue == IF Truthy(fields.revenue) THEN fields.revenue
                   ELSE IF Truthy(fields.profit) THEN RMul(fields.profit, Rat(25, 2))
                   ELSE Q(1000000)
        profit == IF Truthy(fields.profit) THEN fields.profit
                  ELSE IF Truthy(revenue) THEN RMul(revenue, Rat(2, 25)) ELSE ZERO
        assets == IF Truthy(fields.assets) THEN fields.assets
                  ELSE IF Truthy(revenue) THEN RMul(revenue, Rat(9, 5)) ELSE Q(2000000)
        debt == IF Truthy(fields.debt) THEN fields.debt
                ELSE IF Truthy(assets) THEN RMul(assets, Rat(2, 5)) ELSE Q(800000)
        num_companies == IF Truthy(fields.num_companies) THEN fields.num_companies ELSE Q(1000)
    IN  [revenue |-> revenue, profit |-> profit, assets |-> assets, debt |-> debt,
         num_companies |-> num_companies]

\* lines 128-144
ResultData(dict) ==
    [i \in 1..Len(dict) |->
        LET r == Impute(dict[i].fields)
        IN  [year |-> dict[i].year, revenue |-> r.revenue, profit |-> r.profit,
             assets |-> r.assets, debt |-> r.debt, bankruptcies |-> ZERO,
             num_companies |-> r.num_companies]]

finVars == <<nrows, wskaznik, yi, value, result_by_year, financial_df>>
krzVars == <<krz_pkd, result, bankruptcy_df>>
inputVars == <<pkd_code, years, columns, wsk_ok, krz_ok>>
calcVars == <<data, weights, indicators, categories, category>>

\* lines 48-87: the early returns, then the empty result_by_year
load_financial_data ==
    /\ pc = "fin_start"
    /\ IF wsk_ok
       THEN /\ pc' = "fin_rows"
            /\ financial_df' = financial_df
       ELSE /\ pc' = "krz_start"
            /\ financial_df' = None
    /\ result_by_year' = <<>>
    /\ UNCHANGED <<outerVars, inputVars, nrows, wskaznik, yi, value, krzVars, calcVars>>

\* line 89-90: the next row of filtered, a row whose PKD starts with the prefix
iterrows(rawCodes, labels) ==
    /\ pc = "fin_rows"
    /\ nrows < MaxFinRows
    /\ \E pkd \in rawCodes, label \in labels :
          /\ StartsWith(pkd, pkd_code_short(pkd_code))
          /\ wskaznik' = Upper(label)
    /\ nrows' = nrows + 1
    /\ yi' = 1
    /\ pc' = "fin_cell"
    /\ UNCHANGED <<outerVars, inputVars, value, result_by_year, financial_df, krzVars, calcVars>>

NextYear ==
    IF yi = Len(years)
    THEN pc' = "fin_rows" /\ yi' = 0 /\ wskaznik' = <<>>
    ELSE pc' = "fin_cell" /\ yi' = yi + 1 /\ wskaznik' = wskaznik

read_cell_any_number(cells) ==
    /\ pc = "fin_cell"
    /\ IF years[yi] \notin columns
       THEN value' = None /\ NextYear
       ELSE \E cell \in cells :
              LET v == parse_value(cell)
              IN  IF v = None
                  THEN value' = None /\ NextYear
                  ELSE value' = v /\ pc' = "fin_store" /\ UNCHANGED <<yi, wskaznik>>
    /\ UNCHANGED <<outerVars, inputVars, nrows, result_by_year, financial_df, krzVars, calcVars>>

\* lines 92-99: the cell of the row in the column of the year
read_cell(cells) ==
    /\ pc = "fin_cell"
    /\ IF years[yi] \notin columns
       THEN value' = None /\ NextYear
       ELSE \E cell \in cells :
              LET v == parse_value(cell)
              IN  IF v = None \/ RLe(v, ZERO)
                  THEN value' = None /\ NextYear
                  ELSE value' = v /\ pc' = "fin_store" /\ UNCHANGED <<yi, wskaznik>>
    /\ UNCHANGED <<outerVars, inputVars, nrows, result_by_year, financial_df, krzVars, calcVars>>

\* lines 101-126
store_cell ==
    /\ pc = "fin_store"
    /\ result_by_year' = StoreValue(result_by_year, years[yi], wskaznik, value)
    /\ value' = None
    /\ NextYear
    /\ UNCHANGED <<outerVars, inputVars, nrows, financial_df, krzVars, calcVars>>

\* lines 128-148, after the last row
build_result ==
    /\ pc = "fin_rows"
    /\ financial_df' = IF result_by_year = <<>> THEN None
                       ELSE DataFrame(ResultData(result_by_year))
    /\ pc' = "krz_start"
    /\ UNCHANGED <<outerVars, inputVars, nrows, wskaznik, yi, value, result_by_year, krzVars, calcVars>>


(***************************************************************************)
(* DatabaseLoader.load_bankruptcy_data                                     *)
(***************************************************************************)
MaxKrzRows == 2

\* int(x) of a cell: a number (truncated), a text, or NaN; None stands for the
\* ValueError.
IntOf(cell) ==
    IF cell = NaN THEN None
    ELSE IF IsText(cell) THEN ParseInt(cell.text)
    ELSE Q(Trunc(cell))

YearsOf(ys) == { ys[i] : i \in DOMAIN ys }

SetTo(dict, year, n) ==
    [dict EXCEPT ![IndexOfYear(dict, year)].bankruptcies = n]

AddTo(dict, year, n) ==
    [dict EXCEPT ![IndexOfYear(dict, year)].bankruptcies = @ + n]

BankruptcyRowPerRow(dict, ys, row) ==
    LET year == IntOf(row.rok)
    IN  IF year = None \/ year.n \notin YearsOf(ys) THEN dict
        ELSE LET upadlosci == IF row.liczba # NaN THEN IntOf(row.liczba) ELSE ZERO
             IN  IF upadlosci = None THEN dict
                 ELSE Append(dict, [year |-> year.n, bankruptcies |-> upadlosci.n])

\* lines 206-214 for one row of filtered
BankruptcyRow(dict, ys, row) ==
    LET year == IntOf(row.rok)
    IN  IF year = None \/ year.n \notin YearsOf(ys) THEN dict
        ELSE LET withYear == IF HasYear(dict, year.n) THEN dict
                             ELSE Append(dict, [year |-> year.n, bankruptcies |-> 0])
                 upadlosci == IF row.liczba # NaN THEN IntOf(row.liczba) ELSE ZERO
             IN  IF upadlosci = None THEN withYear
                 ELSE AddTo(withYear, year.n, upadlosci.n)

\* load_bankruptcy_data on a result dict that outlives the call
load_bankruptcy_data_accumulating ==
    /\ pc = "krz_start"
    /\ IF krz_ok
       THEN /\ pc' = "krz_rows"
            /\ bankruptcy_df' = bankruptcy_df
       ELSE /\ pc' = "merge"
            /\ bankruptcy_df' = None
    /\ result' = result
    /\ krz_pkd' = <<>>
    /\ UNCHANGED <<outerVars, inputVars, finVars, calcVars>>

\* lines 157-204: the early returns, then the empty result
load_bankruptcy_data ==
    /\ pc = "krz_start"
    /\ IF krz_ok
       THEN /\ pc' = "krz_rows"
            /\ bankruptcy_df' = bankruptcy_df
       ELSE /\ pc' = "merge"
            /\ bankruptcy_df' = None
    /\ result' = <<>>
    /\ krz_pkd' = <<>>
    /\ UNCHANGED <<outerVars, inputVars, finVars, calcVars>>

\* lines 199, 205-214: the next row of the table; only the rows whose code starts
\* with the prefix are in filtered
krz_iterrows(rows) ==
    /\ pc = "krz_rows"
    /\ Len(krz_pkd) < MaxKrzRows
    /\ \E row \in rows :
          /\ krz_pkd' = Append(krz_pkd, row)
          /\ result' = IF StartsWith(row.pkd, pkd_code_short(pkd_code))
                       THEN BankruptcyRow(result, years, row)
                       ELSE result
    /\ UNCHANGED <<outerVars, pc, inputVars, finVars, bankruptcy_df, calcVars>>

\* lines 216-218
krz_result ==
    /\ pc = "krz_rows"
    /\ bankruptcy_df' = IF result = <<>> THEN None ELSE DataFrame(result)
    /\ pc' = "merge"
    /\ UNCHANGED <<outerVars, inputVars, finVars, krz_pkd, result, calcVars>>

(***************************************************************************)
(* DatabaseLoader.load_sector_data_from_database                           *)
(***************************************************************************)
\* DataFrame.merge(on='year', how='left'): the rows of the left frame in their
\* order, each once per row of the right frame with its year, NaN when there is none
RECURSIVE MergeLeft(_, _)
MergeLeft(left, right) ==
    IF left = <<>> THEN <<>>
    ELSE LET rec == Head(left)
             hits == SelectSeq(right, LAMBDA b : b.year = rec.year)
             rows == IF hits = <<>>
                     THEN << [rec |-> rec, bankruptcies_new |-> NaN] >>
                     ELSE [i \in 1..Len(hits) |->
                             [rec |-> rec, bankruptcies_new |-> Q(hits[i].bankruptcies)]]
         IN  rows \o MergeLeft(Tail(left), right)

SectorRecord(code, rec, bankruptcies) ==
    [pkd_code |-> code, year |-> rec.year, revenue |-> rec.revenue, profit |-> rec.profit,
     assets |-> rec.assets, debt |-> rec.debt, bankruptcies |-> bankruptcies,
     num_companies |-> rec.num_companies]

\* lines 238-260
SectorFrame(code, fin, bkr) ==
    IF bkr # None /\ bkr.rows # <<>>
    THEN LET merged == MergeLeft(fin.rows, bkr.rows)
         IN  DataFrame([i \in 1..Len(merged) |->
                SectorRecord(code, merged[i].rec,
                             IF merged[i].bankruptcies_new = NaN THEN ZERO
                             ELSE merged[i].bankruptcies_new)])
    ELSE DataFrame([i \in 1..Len(fin.rows) |-> SectorRecord(code, fin.rows[i], ZERO)])

\* lines 234-260; a sector without data is skipped by the collector
load_sector_data_from_database ==
    /\ pc = "merge"
    /\ IF financial_df = None \/ financial_df.rows = <<>>
       THEN data' = None /\ pc' = "skipped"
       ELSE data' = SectorFrame(pkd_code, financial_df, bankruptcy_df) /\ pc' = "calculate"
    /\ UNCHANGED <<outerVars, loaderVars, weights, indicators, categories, category>>

(***************************************************************************)
(* Raw tables                                                              *)
(***************************************************************************)
RequestedYears == <<2021, 2022>>

RawCodes == { <<"0", "1">>, <<"0", "1", ".", "1">>, <<"1", "0">>, <<"O", "G">> }

RequestedCodes == { <<"0", "1">>, <<"1">> }

\* labels of one field, of no field, and of two fields: profit and assets, assets
\* and debt (debt written first), debt and the count ("EN" within "ZADLUZENIE"),
\* revenue and the count ("EN" within "REVENUE")
Labels ==
    { <<"P", "r", "z", "y", "c", "h", "o", "d", "y">>,
      <<"Z", "y", "s", "k", "/", "A", "k", "t", "y", "w", "a">>,
      <<"D", "e", "b", "t", "/", "A", "s", "s", "e", "t", "s">>,
      <<"Z", "a", "d", "l_stroke", "u", "z_dot", "e", "n", "i", "e">>,
      <<"E", "N">>,
      <<"I", "n", "n", "e">>,
      <<"R", "e", "v", "e", "n", "u", "e">> }

\* missing, unparsable, negative, zero, a fraction below one, and the threshold
\* of the scaling written with non-breaking spaces
Cells ==
    { NaN,
      Text(<<"b", ".", "d", ".">>),
      Text(<<"-", "5">>),
      Text(<<"0">>),
      Text(<<"0", ",", "5">>),
      Text(<<"1", "NBSP", "0", "0", "0", "NBSP", "0", "0", "0">>) }

PipelineLabels == { <<"P", "r", "z", "y", "c", "h", "o", "d", "y">>, <<"I", "n", "n", "e">> }

PipelineCells == { NaN, Text(<<"0">>), Text(<<"8", "0", "0">>) }

\* rows of the sector with a requested year and any count, rows of the sector
\* with another or a missing year, and a row of another sector
KrzRows ==
    { [pkd |-> <<"0", "1", ".", "1">>, rok |-> r, liczba |-> n] :
        r \in { Q(2021), Q(2022) },
        n \in { NaN, Text(<<"b", ".", "d">>), Q(-3), Q(2) } }
    \cup { [pkd |-> <<"0", "1", ".", "1">>, rok |-> r, liczba |-> Q(2)] : r \in { Q(2019), NaN } }
    \cup { [pkd |-> <<"1", "0">>, rok |-> Q(2021), liczba |-> Q(2)] }

(***************************************************************************)
(* Specifications                                                          *)
(***************************************************************************)
CalcIdle ==
    /\ data = None
    /\ weights = DefaultWeights
    /\ indicators = None
    /\ categories = TestCategories
    /\ category = NoCategory

LoaderStart ==
    /\ nrows = 0
    /\ wskaznik = <<>>
    /\ yi = 0
    /\ value = None
    /\ result_by_year = <<>>
    /\ financial_df = None
    /\ krz_pkd = <<>>
    /\ result = <<>>
    /\ bankruptcy_df = None

\* load_financial_data on any table of at most MaxFinRows matching rows
InitFin ==
    /\ BatchIdle
    /\ pc = "fin_start"
    /\ pkd_code \in RequestedCodes
    /\ years = RequestedYears
    /\ columns \in { {2021, 2022}, {2022} }
    /\ wsk_ok \in BOOLEAN
    /\ krz_ok = FALSE
    /\ LoaderStart
    /\ CalcIdle

NextFin ==
    \/ load_financial_data
    \/ iterrows(RawCodes, Labels)
    \/ read_cell(Cells)
    \/ store_cell
    \/ build_result

SpecFin == InitFin /\ [][NextFin]_vars

\* the run of one sector: load_sector_data_from_database, then the calculator
\* and the classifier
Init ==
    /\ BatchIdle
    /\ pc = "fin_start"
    /\ pkd_code = <<"0", "1">>
    /\ years = RequestedYears
    /\ columns = {2021, 2022}
    /\ wsk_ok \in BOOLEAN
    /\ krz_ok \in BOOLEAN
    /\ LoaderStart
    /\ CalcIdle

Next ==
    \/ load_financial_data
    \/ iterrows(RawCodes, PipelineLabels)
    \/ read_cell(PipelineCells)
    \/ store_cell
    \/ build_result
    \/ load_bankruptcy_data
    \/ krz_iterrows(KrzRows)
    \/ krz_result
    \/ load_sector_data_from_database
    \/ calculate_sector_indicators
    \/ classify_sectors

Spec == Init /\ [][Next]_vars


\* lines 128-148 alone, at the end of the row loop of a table that has one row
\* for each observed field of a year
ObservedMoney == { None, Q(800000), Q(2000000) }

ObservedCompanies == { None, Q(0), Q(800) }

ObservedFields ==
    { [revenue |-> r, profit |-> p, assets |-> a, debt |-> d, num_companies |-> c] :
        r \in ObservedMoney, p \in ObservedMoney, a \in ObservedMoney, d \in ObservedMoney,
        c \in ObservedCompanies }

CountObserved(f) ==
    Cardinality({ k \in {"revenue", "profit", "assets", "debt", "num_companies"} : f[k] # None })

InitImpute ==
    /\ BatchIdle
    /\ pc = "fin_rows"
    /\ pkd_code = <<"0", "1">>
    /\ years = RequestedYears
    /\ columns = {2021, 2022}
    /\ wsk_ok = TRUE
    /\ krz_ok = FALSE
    /\ \E f \in ObservedFields :
          /\ result_by_year = << [year |-> 2021, fields |-> f] >>
          /\ nrows = CountObserved(f)
    /\ nrows > 0
    /\ wskaznik = <<>>
    /\ yi = 0
    /\ value = None
    /\ financial_df = None
    /\ krz_pkd = <<>>
    /\ result = <<>>
    /\ bankruptcy_df = None
    /\ CalcIdle

NextImpute == build_result

SpecImpute == InitImpute /\ [][NextImpute]_vars

(***************************************************************************)
(* The loader as a function of the two tables                              *)
(***************************************************************************)
Unfiltered(table, code) == table

\* line 64: the rows of wsk_fin.csv whose code starts with the prefix
Filtered(table, code) ==
    SelectSeq(table, LAMBDA row : StartsWith(row.PKD, pkd_code_short(code)))

\* lines 92-126 for one row: the years in the order of the list
RECURSIVE StoreCells(_, _, _, _, _, _)
StoreCells(dict, ys, cols, label, cells, k) ==
    IF k > Len(ys) THEN dict
    ELSE LET v == IF ys[k] \in cols THEN parse_value(cells[k]) ELSE None
             next == IF v = None \/ RLe(v, ZERO) THEN dict
                     ELSE StoreValue(dict, ys[k], label, v)
         IN  StoreCells(next, ys, cols, label, cells, k + 1)

\* lines 89-126: the rows in the order of the table
RECURSIVE StoreRows(_, _, _, _)
StoreRows(dict, ys, cols, rows) ==
    IF rows = <<>> THEN dict
    ELSE StoreRows(StoreCells(dict, ys, cols, Upper(Head(rows).WSKAZNIK), Head(rows).cells, 1),
                   ys, cols, Tail(rows))

\* load_financial_data(pkd_code, years)
LoadFinancialData(code, ys, cols, ok, table) ==
    IF ~ok \/ table = <<>> \/ Filtered(table, code) = <<>> THEN None
    ELSE LET dict == StoreRows(<<>>, ys, cols, Filtered(table, code))
         IN  IF dict = <<>> THEN None ELSE DataFrame(ResultData(dict))

\* line 199: the rows of krz_pkd.csv whose code starts with the prefix
FilteredKrz(table, code) ==
    SelectSeq(table, LAMBDA row : StartsWith(row.pkd, pkd_code_short(code)))

\* lines 205-214: the rows in the order of the table
RECURSIVE BankruptcyRows(_, _, _)
BankruptcyRows(dict, ys, rows) ==
    IF rows = <<>> THEN dict
    ELSE BankruptcyRows(BankruptcyRow(dict, ys, Head(rows)), ys, Tail(rows))

\* load_bankruptcy_data(pkd_code, years)
LoadBankruptcyData(code, ys, ok, table) ==
    IF ~ok \/ table = <<>> \/ FilteredKrz(table, code) = <<>> THEN None
    ELSE LET dict == BankruptcyRows(<<>>, ys, FilteredKrz(table, code))
         IN  IF dict = <<>> THEN None ELSE DataFrame(dict)

\* load_sector_data_from_database(pkd_code, years)
MergedFrame(code, fin, bkr) ==
    IF fin = None \/ fin.rows = <<>> THEN None ELSE SectorFrame(code, fin, bkr)

LoadSector(code, ys, cols, wskOk, wsk, krzOk, krz) ==
    MergedFrame(code, LoadFinancialData(code, ys, cols, wskOk, wsk),
                LoadBankruptcyData(code, ys, krzOk, krz))

(***************************************************************************)
(* DataService.collect_sector_data and DataCollector.collect_all_data      *)
(***************************************************************************)
MaxCodes == 3

\* an exception: its class, the fixed text of its message, the sector codes that
\* the message names and the exception it was raised from
Exception(type, text, codes, cause) ==
    [type |-> type, text |-> text, codes |-> codes, cause |-> cause]

Keys(dict) == { dict[k].code : k \in DOMAIN dict }

\* dict[code] = df: a new key goes last, an old key keeps its place
DictSet(dict, code, df) ==
    IF code \in Keys(dict)
    THEN [k \in DOMAIN dict |-> IF dict[k].code = code THEN [code |-> code, data |-> df]
                                ELSE dict[k]]
    ELSE Append(dict, [code |-> code, data |-> df])

\* DataCollector.collect_sector_data: the loader's frame, None when it is empty
NoneIfEmpty(df) == IF df = None \/ df.rows = <<>> THEN None ELSE df

CollectSectorData(code, ys, cols, wskOk, wsk, krzOk, krz) ==
    NoneIfEmpty(LoadSector(code, ys, cols, wskOk, wsk, krzOk, krz))

KeepsAll(df) == TRUE

\* data_collector.py line 29
Keeps(df) == df # None /\ df.rows # <<>>

\* the exceptions that collect_sector_data can let out ("" for none): only its
\* import of the loader is outside its try block
Raised == { "", "ImportError" }

Warning(text, code) == [text |-> text, code |-> code]

\* data_service.py lines 20-27, data_collector.py lines 19-23
collect_sector_data ==
    /\ pc = "collect"
    /\ IF pkd_codes = <<>>
       THEN /\ error' = Exception("DataCollectionError", "Brak kodow PKD", {}, None)
            /\ pc' = "exit"
       ELSE /\ error' = None
            /\ pc' = "collect_loop"
    /\ results' = <<>>
    /\ skipped' = <<>>
    /\ code_i' = 0
    /\ UNCHANGED <<loaderVars, calcVars, tableVars, runs, pkd_codes, sector_data,
                   calc_results, indicators_df, results_df, exported, serviceVars>>

\* data_collector.py lines 25-39: one iteration of the loop over pkd_codes
collect_all_data ==
    /\ pc = "collect_loop"
    /\ code_i < Len(pkd_codes)
    /\ code_i' = code_i + 1
    /\ \E raised \in Raised,
          df \in {CollectSectorData(pkd_codes[code_i + 1], years, columns, wsk_ok,
                                     wsk_fin_csv, krz_ok, krz_pkd_csv)} :
          LET code == pkd_codes[code_i + 1]
          IN  IF raised = "" /\ Keeps(df)
              THEN /\ results' = DictSet(results, code, df)
                   /\ UNCHANGED <<skipped, log>>
              ELSE /\ skipped' = Append(skipped, code)
                   /\ log' = Append(log, Warning(IF raised = "" THEN "brak danych"
                                                 ELSE raised, code))
                   /\ UNCHANGED results
    /\ UNCHANGED <<pc, loaderVars, calcVars, tableVars, runs, pkd_codes, sector_data,
                   calc_results, indicators_df, results_df, error, exported, returned>>

\* data_collector.py lines 41-48, data_service.py lines 28-33
collect_all_data_return ==
    /\ pc = "collect_loop"
    /\ code_i = Len(pkd_codes)
    /\ IF results = <<>>
       THEN /\ error' = Exception("DataCollectionError", "Blad zbierania danych sektorowych", {},
                           Exception("DataCollectionError",
                                     "Nie udalo sie zebrac danych dla zadnego sektora", {}, None))
            /\ sector_data' = sector_data
            /\ pc' = "exit"
       ELSE /\ error' = None
            /\ sector_data' = results
            /\ pc' = "calculate_all"
    /\ UNCHANGED <<loaderVars, calcVars, tableVars, runs, pkd_codes, code_i, results, skipped,
                   calc_results, indicators_df, results_df, exported, serviceVars>>

(***************************************************************************)
(* AnalysisService: calculate_indicators, classify_sectors,                *)
(* prepare_final_results; run_analysis                                     *)
(***************************************************************************)
\* a frame that has no 'year' column, as pd.DataFrame() has none: sort_values('year')
\* raises KeyError for it
NoYearColumn == [rows |-> <<>>, missing |-> "year"]

Raises(df) == "missing" \in DOMAIN df

\* what calculate_indicators returns when calculate_all_indicators has raised after
\* the dicts of partial: nothing, the exception leaves the call
PartialTable(partial) == DataFrame(partial)

NoTable(partial) == None

\* indicators.py lines 48-55, analysis_service.py lines 25-32: one iteration of the
\* loop over sector_data.items()
calculate_all_indicators ==
    /\ pc = "calculate_all"
    /\ Len(calc_results) < Len(sector_data)
    /\ LET item == sector_data[Len(calc_results) + 1]
       IN  IF Raises(item.data)
           THEN /\ error' = Exception("CalculationError", "Blad obliczania wskaznikow", {},
                               Exception("KeyError", "year", {}, None))
                /\ indicators_df' = NoTable(calc_results)
                /\ pc' = "exit"
                /\ UNCHANGED calc_results
           ELSE /\ calc_results' = Append(calc_results,
                     calculate_sector_indicators_of(item.code, item.data.rows, weights))
                /\ UNCHANGED <<pc, error, indicators_df>>
    /\ UNCHANGED <<loaderVars, calcVars, tableVars, runs, pkd_codes, code_i, results, skipped,
                   sector_data, results_df, exported, serviceVars>>

\* indicators.py line 57, analysis_service.py lines 27-28
calculate_indicators ==
    /\ pc = "calculate_all"
    /\ Len(calc_results) = Len(sector_data)
    /\ indicators_df' = DataFrame(calc_results)
    /\ pc' = "classify_all"
    /\ UNCHANGED <<loaderVars, calcVars, tableVars, runs, pkd_codes, code_i, results, skipped,
                   sector_data, calc_results, results_df, error, exported, serviceVars>>

\* the row with one more column
WithColumn(row, column, v) == (column :> v) @@ row

\* analysis_service.py lines 34-44, classifier.py lines 42-53; a table without rows
\* has no final_index column
service_classify_sectors ==
    /\ pc = "classify_all"
    /\ IF indicators_df.rows = <<>>
       THEN /\ error' = Exception("CalculationError", "Blad klasyfikacji sektorow", {},
                               Exception("KeyError", "final_index", {}, None))
            /\ pc' = "exit"
            /\ UNCHANGED indicators_df
       ELSE /\ indicators_df' =
                 DataFrame([k \in DOMAIN indicators_df.rows |->
                     WithColumn(indicators_df.rows[k], "category",
                                assign_category(indicators_df.rows[k].final_index, categories))])
            /\ pc' = "prepare"
            /\ UNCHANGED error
    /\ UNCHANGED <<loaderVars, calcVars, tableVars, runs, pkd_codes, code_i, results, skipped,
                   sector_data, calc_results, results_df, exported, serviceVars>>

Orders(n) == { f \in [1..n -> 1..n] : \A a, b \in 1..n : f[a] = f[b] => a = b }

RankFromZero(k) == k - 1

\* line 53: range(1, len(indicators_df) + 1)
Rank(k) == k

\* sort_values('final_index', ascending=False) with the default kind, quicksort,
\* which is not stable: any order of the rows in which the index does not increase
SortValuesDescending(rows) ==
    { [k \in DOMAIN rows |-> rows[f[k]]] : f \in
        { g \in Orders(Len(rows)) :
            \A a, b \in 1..Len(rows) :
                a < b => RLe(rows[g[b]].final_index, rows[g[a]].final_index) } }

\* analysis_service.py lines 46-67 (branch_name, a lookup of the display name, is
\* left out)
prepare_final_results ==
    /\ pc = "prepare"
    /\ \E sorted \in SortValuesDescending(indicators_df.rows) :
          results_df' = DataFrame([k \in DOMAIN sorted |-> WithColumn(sorted[k], "rank", Rank(k))])
    /\ pc' = "export"
    /\ UNCHANGED <<loaderVars, calcVars, tableVars, runs, pkd_codes, code_i, results, skipped,
                   sector_data, calc_results, indicators_df, error, exported, serviceVars>>

\* run.py lines 65-71
export_results ==
    /\ pc = "export"
    /\ exported' = TRUE
    /\ pc' = "exported"
    /\ UNCHANGED <<loaderVars, calcVars, tableVars, runs, pkd_codes, code_i, results, skipped,
                   sector_data, calc_results, indicators_df, results_df, error, serviceVars>>

(***************************************************************************)
(* The batch: tables, requested codes, specifications                      *)
(***************************************************************************)
WskRow(pkd, label, cell2021, cell2022) ==
    [PKD |-> pkd, WSKAZNIK |-> label, cells |-> <<cell2021, cell2022>>]

Przychody == <<"P", "r", "z", "y", "c", "h", "o", "d", "y">>

Zysk == <<"Z", "y", "s", "k">>

T800 == Text(<<"8", "0", "0">>)

\* wsk_fin.csv: sectors 01 and 10 with the same values; sector 01 with its years
\* met in the order 2022, 2021 and sector 10 with other values; sector 10 alone
BatchWskTables ==
    { << WskRow(<<"0", "1", ".", "2">>, Przychody, NaN, T800),
         WskRow(<<"1", "0">>, Przychody, NaN, T800) >>,
      << WskRow(<<"0", "1", ".", "2">>, Przychody, NaN, T800),
         WskRow(<<"0", "1", ".", "1">>, Przychody, T800, NaN),
         WskRow(<<"1", "0">>, Zysk, T800, T800) >>,
      << WskRow(<<"1", "0">>, Zysk, T800, T800),
         WskRow(<<"1", "0">>, Przychody, NaN, T800) >> }

KrzOf(pkd, rok, liczba) == [pkd |-> pkd, rok |-> Q(rok), liczba |-> Q(liczba)]

BatchKrzTables ==
    { << KrzOf(<<"0", "1", ".", "1">>, 2022, 2), KrzOf(<<"1", "0">>, 2022, 2) >>,
      << KrzOf(<<"1", "0">>, 2022, 30), KrzOf(<<"1", "0">>, 2022, 30) >> }

\* sector 99 is in neither table
BatchCodes == { <<"0", "1">>, <<"1", "0">>, <<"9", "9">> }

CodeLists == UNION { [1..k -> BatchCodes] : k \in 0..MaxCodes }

BatchStart ==
    /\ code_i = 0
    /\ results = <<>>
    /\ skipped = <<>>
    /\ calc_results = <<>>
    /\ indicators_df = None
    /\ results_df = None
    /\ error = None
    /\ exported = FALSE
    /\ returned = None
    /\ log = <<>>
    /\ runs = <<>>

\* run_analysis on any of the tables and any list of codes
InitBatch ==
    /\ pc = "collect"
    /\ pkd_code = <<>>
    /\ years = RequestedYears
    /\ columns = {2021, 2022}
    /\ wsk_ok = TRUE
    /\ krz_ok = TRUE
    /\ LoaderStart
    /\ CalcIdle
    /\ wsk_fin_csv \in BatchWskTables
    /\ krz_pkd_csv \in BatchKrzTables
    /\ pkd_codes \in CodeLists
    /\ sector_data = <<>>
    /\ BatchStart

NextBatch ==
    \/ collect_sector_data
    \/ collect_all_data
    \/ collect_all_data_return
    \/ calculate_all_indicators
    \/ calculate_indicators
    \/ service_classify_sectors
    \/ prepare_final_results
    \/ export_results

SpecBatch == InitBatch /\ [][NextBatch]_vars

\* series given to calculate_indicators: of the loader, and a frame without columns
AnalysisFrames ==
    { NoYearColumn,
      DataFrame(<< Record(2022, <<800000, 64000>>, <<576000, 1440000>>, <<0, 1000>>) >>),
      DataFrame(<< Record(2022, <<10000000, 800>>, <<800000, 2000000>>, <<2, 1000>>) >>) }

SectorDataInputs ==
    UNION { { d \in [1..k -> [code : BatchCodes, data : AnalysisFrames]] :
                \A a, b \in 1..k : d[a].code = d[b].code => a = b }
            : k \in 0..MaxCodes }

\* run_analysis from calculate_indicators on, on any dict of series
InitAnalysis ==
    /\ pc = "calculate_all"
    /\ LoaderIdle
    /\ CalcIdle
    /\ wsk_fin_csv = <<>>
    /\ krz_pkd_csv = <<>>
    /\ pkd_codes = <<>>
    /\ sector_data \in SectorDataInputs
    /\ BatchStart

NextAnalysis ==
    \/ calculate_all_indicators
    \/ calculate_indicators
    \/ service_classify_sectors
    \/ prepare_final_results
    \/ export_results

SpecAnalysis == InitAnalysis /\ [][NextAnalysis]_vars

(***************************************************************************)
(* Two runs of load_sector_data_from_database on the same tables           *)
(***************************************************************************)
MaxRuns == 2

\* the row that filtered.iterrows() gives next
rerun_iterrows ==
    /\ nrows < Len(Filtered(wsk_fin_csv, pkd_code))
    /\ LET row == Filtered(wsk_fin_csv, pkd_code)[nrows + 1]
       IN  iterrows({row.PKD}, {row.WSKAZNIK})

\* the cell of the row in the column of the year
rerun_read_cell ==
    /\ pc = "fin_cell"
    /\ read_cell({Filtered(wsk_fin_csv, pkd_code)[nrows].cells[yi]})

\* the loop over filtered is exhausted
rerun_build_result ==
    /\ nrows = Len(Filtered(wsk_fin_csv, pkd_code))
    /\ build_result

rerun_krz_iterrows ==
    /\ Len(krz_pkd) < Len(krz_pkd_csv)
    /\ krz_iterrows({krz_pkd_csv[Len(krz_pkd) + 1]})

rerun_krz_result ==
    /\ Len(krz_pkd) = Len(krz_pkd_csv)
    /\ krz_result

\* the call has returned: its series is kept and the loader is called again with
\* the same arguments; the new call iterates the table from its first row
call_again ==
    /\ pc \in {"calculate", "skipped"}
    /\ Len(runs) < MaxRuns
    /\ runs' = Append(runs, data)
    /\ IF Len(runs) + 1 < MaxRuns
       THEN pc' = "fin_start" /\ nrows' = 0
       ELSE pc' = "returned" /\ nrows' = nrows
    /\ UNCHANGED <<inputVars, wskaznik, yi, value, result_by_year, financial_df, krzVars,
                   calcVars, tableVars, batchVars, serviceVars>>

RerunWskRows ==
    { WskRow(<<"0", "1", ".", "1">>, Przychody, T800, NaN),
      WskRow(<<"0", "1", ".", "2">>, Przychody, NaN, T800),
      WskRow(<<"0", "1", ".", "2">>, Zysk, T800, T800),
      WskRow(<<"1", "0">>, Przychody, T800, T800) }

RerunKrzRows ==
    { KrzOf(<<"0", "1", ".", "1">>, 2022, 2),
      KrzOf(<<"0", "1", ".", "1">>, 2021, -3),
      KrzOf(<<"1", "0">>, 2022, 2) }

InitRerun ==
    /\ pc = "fin_start"
    /\ pkd_code = <<"0", "1">>
    /\ years = RequestedYears
    /\ columns = {2021, 2022}
    /\ wsk_ok = TRUE
    /\ krz_ok = TRUE
    /\ LoaderStart
    /\ CalcIdle
    /\ wsk_fin_csv \in UNION { [1..k -> RerunWskRows] : k \in 0..MaxFinRows }
    /\ krz_pkd_csv \in UNION { [1..k -> RerunKrzRows] : k \in 0..MaxKrzRows }
    /\ pkd_codes = <<>>
    /\ sector_data = <<>>
    /\ BatchStart

NextRerun ==
    \/ load_financial_data
    \/ rerun_iterrows
    \/ rerun_read_cell
    \/ store_cell
    \/ rerun_build_result
    \/ load_bankruptcy_data
    \/ rerun_krz_iterrows
    \/ rerun_krz_result
    \/ load_sector_data_from_database
    \/ call_again

SpecRerun == InitRerun /\ [][NextRerun]_vars

(***************************************************************************)
(* One run of load_financial_data on a table of wsk_fin.csv                *)
(***************************************************************************)
Inne == <<"I", "n", "n", "e">>

\* rows of sector 01 with a label of no field, with a zero, a negative, an
\* unparsable and an empty cell, and a row of sector 10
TableWskRows ==
    { WskRow(<<"0", "1", ".", "1">>, Inne, T800, NaN),
      WskRow(<<"0", "1", ".", "1">>, Przychody, Text(<<"0">>), T800),
      WskRow(<<"0", "1", ".", "2">>, Zysk, Text(<<"-", "5">>), Text(<<"b", ".", "d", ".">>)),
      WskRow(<<"0", "1", ".", "2">>, Inne, NaN, Text(<<"0", ",", "5">>)),
      WskRow(<<"1", "0">>, Przychody, T800, T800) }

InitTable ==
    /\ pc = "fin_start"
    /\ pkd_code \in RequestedCodes
    /\ years = RequestedYears
    /\ columns \in { {2021, 2022}, {2022} }
    /\ wsk_ok \in BOOLEAN
    /\ krz_ok = FALSE
    /\ LoaderStart
    /\ CalcIdle
    /\ wsk_fin_csv \in UNION { [1..k -> TableWskRows] : k \in 0..MaxFinRows }
    /\ krz_pkd_csv = <<>>
    /\ pkd_codes = <<>>
    /\ sector_data = <<>>
    /\ BatchStart

NextTable ==
    \/ load_financial_data
    \/ rerun_iterrows
    \/ rerun_read_cell
    \/ store_cell
    \/ rerun_build_result

SpecTable == InitTable /\ [][NextTable]_vars

(***************************************************************************)
(* DataService.validate_sector_data (data_service.py lines 35-57).  A table *)
(* is its set of column names and its rows; a cell of a numeric column is a *)
(* number or NaN.                                                          *)
(***************************************************************************)
Range(seq) == { seq[i] : i \in DOMAIN seq }

Table(cols, rows) == [columns |-> cols, rows |-> rows]

True == [bool |-> TRUE]

key_columns == <<"pkd_code", "year">>

\* line 36
required_columns ==
    <<"pkd_code", "year", "revenue", "profit", "assets", "debt", "bankruptcies",
      "num_companies">>

\* line 47
numeric_columns == <<"revenue", "profit", "assets", "debt", "num_companies">>

\* line 41: the required columns that the table lacks, in the order of the list
missing_columns(df) ==
    SelectSeq(required_columns, LAMBDA col : col \notin df.columns)

IsNull(cell) == cell = NaN \/ cell = None

\* line 49: (data[col] < 0).any(); a comparison with NaN is False
AnyNegative(df, col) ==
    \E k \in DOMAIN df.rows : ~IsNull(df.rows[k][col]) /\ RLt(df.rows[k][col], ZERO)

\* lines 48-50: one warning for each numeric column with a negative value
RECURSIVE NegativeWarnings(_, _)
NegativeWarnings(df, cols) ==
    IF cols = <<>> THEN <<>>
    ELSE (IF AnyNegative(df, Head(cols))
          THEN <<Warning("Znaleziono ujemne wartosci", Head(cols))>> ELSE <<>>)
         \o NegativeWarnings(df, Tail(cols))

\* lines 52-53: data[required_columns].isnull().sum().any()
AnyMissingValue(df) ==
    \E k \in DOMAIN df.rows :
        \E i \in DOMAIN required_columns : IsNull(df.rows[k][required_columns[i]])

\* lines 41-57
validate_sector_data ==
    /\ pc = "validate"
    /\ IF missing_columns(data) # <<>>
       THEN /\ error' = Exception("DataProcessingError", "Brakujace wymagane kolumny",
                                  {}, None)
            /\ pc' = "exit"
            /\ UNCHANGED <<returned, log>>
       ELSE /\ log' = log \o NegativeWarnings(data, numeric_columns)
                          \o (IF AnyMissingValue(data)
                              THEN <<Warning("Wykryto brakujace wartosci", "")>>
                              ELSE <<>>)
            /\ returned' = True
            /\ pc' = "validated"
            /\ UNCHANGED error
    /\ UNCHANGED <<tableVars, runs, pkd_codes, code_i, results, skipped, sector_data,
                   calc_results, indicators_df, results_df, exported,
                   loaderVars, calcVars>>

\* the tables: all required columns, one more column, one column less, the two
\* columns of test_validate_sector_data_missing_columns, no column; no row, one
\* row, two rows
ColumnSets ==
    LET all == Range(required_columns)
    IN  {all, all \cup {"branch_name"}, Range(key_columns), {}}
            \cup { all \ {col} : col \in all }

RowCells ==
    [pkd_code : {Text("62"), None}, year : {Q(2024)},
     revenue : {Q(10000000), Q(-10000000), NaN}, profit : {Q(1000000), Q(-1000000)},
     assets : {Q(20000000), Q(-20000000)}, debt : {Q(8000000), NaN},
     bankruptcies : {Q(50), Q(-50)}, num_companies : {Q(5000), Q(-5000)},
     branch_name : {Text("Informatyka")}]

PlainRow ==
    [pkd_code |-> Text("62"), year |-> Q(2023), revenue |-> Q(9000000),
     profit |-> Q(900000), assets |-> Q(18000000), debt |-> Q(7000000),
     bankruptcies |-> Q(40), num_companies |-> Q(4800),
     branch_name |-> Text("Informatyka")]

Restrict(row, cols) == [col \in cols |-> row[col]]

RowsOver(cols) ==
    {<<>>} \cup { <<Restrict(r, cols)>> : r \in RowCells }
           \cup { <<Restrict(PlainRow, cols), Restrict(r, cols)>> : r \in RowCells }

ValidateTables ==
    UNION { { Table(cols, rows) : rows \in RowsOver(cols) } : cols \in ColumnSets }

InitValidate ==
    /\ BatchIdle
    /\ LoaderIdle
    /\ pc = "validate"
    /\ data \in ValidateTables
    /\ weights = DefaultWeights
    /\ indicators = None
    /\ categories = TestCategories
    /\ category = NoCategory

NextValidate == validate_sector_data

SpecValidate == InitValidate /\ [][NextValidate]_vars

(***************************************************************************)
(* Weights.validate (config.py lines 13-15) and load_config                *)
(* (config_loader.py lines 16-60).  The configuration file is what         *)
(* yaml.safe_load makes of it: a dict, None for an empty file, or the      *)
(* exception of open or of the parser.                                     *)
(***************************************************************************)
RAbs(a) == [n |-> Abs(a.n), d |-> a.d]

validate_inclusive(w) ==
    LET total == RAdd(RAdd(RAdd(RAdd(w.size, w.growth), w.profitability), w.debt), w.risk)
    IN  RLe(RAbs(RSub(total, ONE)), Rat(1, 100))

\* config.py lines 13-15
validate(w) ==
    LET total == RAdd(RAdd(RAdd(RAdd(w.size, w.growth), w.profitability), w.debt), w.risk)
    IN  RLt(RAbs(RSub(total, ONE)), Rat(1, 100))

FileRaises(type) == [raises |-> type]

ConfigDict(w, cats, viz) == [weights |-> w, categories |-> cats, visualization |-> viz]

IsDict(config_dict) == DOMAIN config_dict = {"weights", "categories", "visualization"}

Config(w, cats) == [weights |-> w, categories |-> cats]

\* config.py lines 89-114: Weights(**data.get("weights", {})) takes the defaults when
\* the section is absent; Visualization(**{}) raises TypeError
from_dict(config_dict) ==
    IF ~config_dict.visualization THEN FileRaises("TypeError")
    ELSE Config(IF config_dict.weights = None THEN DefaultWeights ELSE config_dict.weights,
                config_dict.categories)

\* config_loader.py lines 32-60
load_config ==
    /\ pc = "load_config"
    /\ IF data = FileRaises("FileNotFoundError")
       THEN /\ error' = Exception("ConfigurationError", "Configuration file not found",
                                  {}, None)
            /\ pc' = "exit"
            /\ UNCHANGED <<returned, log, weights, categories>>
       ELSE IF data = FileRaises("YAMLError")
       THEN /\ error' = Exception("ConfigurationError", "Error parsing YAML configuration",
                                  {}, data)
            /\ pc' = "exit"
            /\ UNCHANGED <<returned, log, weights, categories>>
       ELSE IF data = None
       THEN /\ error' = Exception("ConfigurationError",
                                  "Unexpected error loading configuration", {},
                                  Exception("ConfigurationError",
                                            "Configuration file is empty", {}, None))
            /\ pc' = "exit"
            /\ UNCHANGED <<returned, log, weights, categories>>
       ELSE LET config == from_dict(data)
            IN  IF config = FileRaises("TypeError")
                THEN /\ error' = Exception("ConfigurationError",
                                           "Unexpected error loading configuration", {},
                                           config)
                     /\ pc' = "exit"
                     /\ UNCHANGED <<returned, log, weights, categories>>
                ELSE /\ log' = IF ~validate(config.weights)
                               THEN Append(log, Warning("Weights do not sum to 1.0, but continuing...", ""))
                               ELSE log
                     /\ weights' = config.weights
                     /\ categories' = config.categories
                     /\ returned' = config
                     /\ pc' = "config_loaded"
                     /\ UNCHANGED error
    /\ UNCHANGED <<tableVars, runs, pkd_codes, code_i, results, skipped, sector_data,
                   calc_results, indicators_df, results_df, exported,
                   loaderVars, data, indicators, category>>

\* weights whose sum is 1, 0.99, 1.01, 0.991, 1.009 and more than 1.01, among them
\* the weights of tests/test_models.py
ConfigWeights ==
    [size : {Rat(1, 5), Rat(19, 100), Rat(21, 100), Rat(191, 1000), Rat(209, 1000),
             Rat(3, 10)},
     growth : {Rat(1, 4), Rat(3, 10)},
     profitability : {Rat(1, 5), Rat(3, 10)},
     debt : {Rat(3, 20), Rat(1, 5)},
     risk : {Rat(1, 5)}]

ConfigFiles ==
    {FileRaises("FileNotFoundError"), FileRaises("YAMLError"), None}
        \cup { ConfigDict(w, cats, viz) :
                 w \in ConfigWeights \cup {None}, cats \in {<<>>, TestCategories},
                 viz \in BOOLEAN }

InitConfig ==
    /\ BatchIdle
    /\ LoaderIdle
    /\ pc = "load_config"
    /\ data \in ConfigFiles
    /\ weights = DefaultWeights
    /\ indicators = None
    /\ categories = <<>>
    /\ category = NoCategory

NextConfig == load_config

SpecConfig == InitConfig /\ [][NextConfig]_vars

(***************************************************************************)
(* Properties                                                              *)
(***************************************************************************)
Calculated == pc \in {"classify", "done"} /\ indicators # None

Loaded == pc \in {"calculate", "classify", "done"} /\ data # None

In01(x) == RLe(ZERO, x) /\ RLe(x, ONE)

\* C1: final_index is the sum of the five returned sub-scores, each multiplied by its
\* weight, for every series and every weight tuple; the weights are not renormalized.
C1_FinalIndexIsDotProduct ==
    Calculated =>
        indicators.final_index =
            RAdd(RMul(indicators.size_score, weights.size),
                 RAdd(RMul(indicators.growth_score, weights.growth),
                      RAdd(RMul(indicators.profitability_score, weights.profitability),
                           RAdd(RMul(indicators.debt_score, weights.debt),
                                RMul(indicators.risk_score, weights.risk)))))

C1_Witness ==
    /\ Calculated
    /\ Len(data.rows) = 2
    /\ WeightSum(weights) # ONE
    /\ RLt(ONE, indicators.final_index)

\* C2: the category is the name of a category with the highest min_score that is at
\* most the index, and the fallback label when there is none.
Eligible == { i \in DOMAIN categories : RLe(categories[i].min_score, indicators.final_index) }

C2_HighestSatisfiedCategory ==
    (pc = "done" /\ category # NoCategory) =>
        IF Eligible = {} THEN category = FALLBACK
        ELSE \E i \in Eligible :
                /\ category = categories[i].name
                /\ \A j \in Eligible : RLe(categories[j].min_score, categories[i].min_score)

C2_Witness ==
    /\ pc = "done"
    /\ Len(categories) = 3
    /\ Cardinality(Eligible) = 2
    /\ RLt(categories[1].min_score, categories[2].min_score)
    /\ RLt(categories[2].min_score, categories[3].min_score)
    /\ category = categories[2].name

\* C3: each of the five sub-scores lies in [0, 1], for every series.
C3_ScoresIn01 ==
    Calculated =>
        /\ In01(indicators.size_score)
        /\ In01(indicators.growth_score)
        /\ In01(indicators.profitability_score)
        /\ In01(indicators.debt_score)
        /\ In01(indicators.risk_score)

C3_Witness ==
    /\ Calculated
    /\ data.rows # <<>>
    /\ RLt(size_score_unclamped(sort_values_year(data.rows)), ZERO)
    /\ indicators.size_score = ZERO
    /\ indicators.risk_score = ONE

Built == pc = "krz_start" /\ financial_df # None

\* the chain of C5 for the observed fields f and the record r, a count being
\* observed when seen(count)
Chain(f, r, companiesSeen) ==
    /\ r.revenue = IF f.revenue # None THEN f.revenue
                   ELSE IF f.profit # None THEN RMul(f.profit, Rat(25, 2))
                   ELSE Q(1000000)
    /\ r.profit = IF f.profit # None THEN f.profit ELSE RMul(r.revenue, Rat(8, 100))
    /\ r.assets = IF f.assets # None THEN f.assets ELSE RMul(r.revenue, Rat(18, 10))
    /\ r.debt = IF f.debt # None THEN f.debt ELSE RMul(r.assets, Rat(4, 10))
    /\ r.num_companies = IF companiesSeen THEN f.num_companies ELSE Q(1000)

OnlyProfit800000(f) ==
    /\ f.profit = Q(800000)
    /\ f.revenue = None /\ f.assets = None /\ f.debt = None

Example800000(f, r) ==
    OnlyProfit800000(f) =>
        r.revenue = Q(10000000) /\ r.assets = Q(18000000) /\ r.debt = Q(7200000)

\* C5 as stated: the fields are resolved in the order revenue, profit, assets, debt
\* from the observed values, and num_companies is the observed count, else 1000.
C5_ImputationChain_Original ==
    Built =>
        \A i \in DOMAIN result_by_year :
            LET f == result_by_year[i].fields
                r == financial_df.rows[i]
            IN  Chain(f, r, f.num_companies # None) /\ Example800000(f, r)

\* C5 amended: as C5, with num_companies the observed count when that count is at
\* least 1, else 1000 (a count cell below one is stored as 0 and replaced by 1000).
C5_ImputationChain ==
    Built =>
        \A i \in DOMAIN result_by_year :
            LET f == result_by_year[i].fields
                r == financial_df.rows[i]
            IN  /\ Chain(f, r, f.num_companies # None /\ RLe(ONE, f.num_companies))
                /\ Example800000(f, r)

C5_Witness ==
    /\ Built
    /\ OnlyProfit800000(result_by_year[1].fields)
    /\ financial_df.rows[1].revenue = Q(10000000)
    /\ financial_df.rows[1].debt = Q(7200000)

FieldNames == {"revenue", "profit", "assets", "debt", "num_companies"}

\* C6: first-match-wins. For a (year, field), the step that stores a cell sets the
\* field only when no earlier row has set it, and then to the value of that row;
\* a field that an earlier row has set keeps its value in every later step, so the
\* values of later rows are discarded (not summed, averaged or overwritten).
C6_FirstMatchWins ==
    [][ /\ pc # "fin_start" => Len(result_by_year') >= Len(result_by_year)
        /\ pc # "fin_start" =>
             \A i \in DOMAIN result_by_year :
                /\ result_by_year'[i].year = result_by_year[i].year
                /\ \A k \in FieldNames :
                      result_by_year[i].fields[k] # None =>
                         result_by_year'[i].fields[k] = result_by_year[i].fields[k]
        /\ (pc = "fin_store" /\ FieldOf(wskaznik) # NoField) =>
             LET year == years[yi]
                 field == FieldOf(wskaznik)
                 first == \/ ~HasYear(result_by_year, year)
                          \/ result_by_year[IndexOfYear(result_by_year, year)].fields[field] = None
                 after == result_by_year'[IndexOfYear(result_by_year', year)].fields
             IN  /\ HasYear(result_by_year', year)
                 /\ first => after[field] = Stored(field, value)
                 /\ \A k \in FieldNames \ {field} :
                       after[k] = IF HasYear(result_by_year, year)
                                  THEN result_by_year[IndexOfYear(result_by_year, year)].fields[k]
                                  ELSE None
      ]_vars

\* a later row brings a different value for a field that an earlier row has set
C6_Witness ==
    /\ pc = "fin_store"
    /\ nrows = 2
    /\ FieldOf(wskaznik) # NoField
    /\ HasYear(result_by_year, years[yi])
    /\ LET kept == result_by_year[IndexOfYear(result_by_year, years[yi])].fields[FieldOf(wskaznik)]
       IN  kept # None /\ kept # Stored(FieldOf(wskaznik), value)

\* the count that a row of the bankruptcy table carries: the integer of its cell,
\* nothing (0) for a blank or unparsable cell
CountOfRow(row) ==
    IF row.liczba = NaN \/ (IsText(row.liczba) /\ ParseInt(row.liczba.text) = None) THEN 0
    ELSE IF IsText(row.liczba) THEN ParseInt(row.liczba.text).n
    ELSE row.liczba.n

\* the rows of the table whose code starts with the prefix and whose year is the year
MatchingRows(table, prefix, year) ==
    SelectSeq(table, LAMBDA row : StartsWith(row.pkd, prefix) /\ row.rok = Q(year))

RECURSIVE SumOfCounts(_)
SumOfCounts(rows) ==
    IF rows = <<>> THEN 0 ELSE CountOfRow(Head(rows)) + SumOfCounts(Tail(rows))

\* C7: the bankruptcies of every record of the sector is the sum of the counts of
\* the rows of the bankruptcy table whose code starts with the 2-character prefix
\* and whose year is the year of the record; it is 0 when there is no such row and
\* when the table is missing or unusable.
C7_BankruptciesAreSummed ==
    Loaded =>
        \A i \in DOMAIN data.rows :
            data.rows[i].bankruptcies =
                Q(SumOfCounts(MatchingRows(krz_pkd, pkd_code_short(pkd_code), data.rows[i].year)))

\* two rows of the sector and of the year of a record, each with a count
C7_Witness ==
    /\ Loaded
    /\ \E i \in DOMAIN data.rows :
          LET rows == MatchingRows(krz_pkd, pkd_code_short(pkd_code), data.rows[i].year)
          IN  /\ Len(rows) = 2
              /\ \A j \in 1..2 : CountOfRow(rows[j]) > 0
              /\ data.rows[i].bankruptcies = Q(4)

\* C8: the series that load_sector_data_from_database returns is in ascending
\* order of year, for every table and every order of its rows.
C8_AscendingYears ==
    Loaded =>
        \A i, j \in DOMAIN data.rows : i < j => data.rows[i].year < data.rows[j].year

\* C9: the returned series has at most one record per year, for any number of rows
\* of the sector in the financial table and any number of rows per year in the
\* bankruptcy table; the merge keeps every financial record once, in its place.
C9_OneRecordPerYear ==
    Loaded =>
        /\ \A i, j \in DOMAIN data.rows : data.rows[i].year = data.rows[j].year => i = j
        /\ Len(data.rows) = Len(financial_df.rows)
        /\ \A i \in DOMAIN data.rows :
              /\ data.rows[i].pkd_code = pkd_code
              /\ \A k \in FieldNames \cup {"year"} : data.rows[i][k] = financial_df.rows[i][k]

\* two financial rows gave two records and two bankruptcy rows are of the year of
\* one of them
C9_Witness ==
    /\ Loaded
    /\ nrows = 2
    /\ Len(data.rows) = 2
    /\ \E i \in DOMAIN data.rows :
          Len(MatchingRows(krz_pkd, pkd_code_short(pkd_code), data.rows[i].year)) = 2

\* C10: every returned record has revenue, profit, assets and debt >= 0, an integer
\* bankruptcies >= 0 and an integer num_companies >= 1, for every content of the
\* two tables.
C10_RecordRanges ==
    Loaded =>
        \A i \in DOMAIN data.rows :
            /\ \A k \in {"revenue", "profit", "assets", "debt"} : RLe(ZERO, data.rows[i][k])
            /\ IsInt(data.rows[i].bankruptcies) /\ RLe(ZERO, data.rows[i].bankruptcies)
            /\ IsInt(data.rows[i].num_companies) /\ RLe(ONE, data.rows[i].num_companies)


\* the series that the loader gives for a code on the tables of the run
SeriesOf(code) == LoadSector(code, years, columns, wsk_ok, wsk_fin_csv, krz_ok, krz_pkd_csv)

Produces(code) == SeriesOf(code) # None /\ SeriesOf(code).rows # <<>>

RaisedFor(code) ==
    \E k \in DOMAIN log : log[k].code = code /\ log[k].text \in Raised \ {""}

CollectionOver == pc \notin {"collect", "collect_loop"}

\* C11: collect_all_data goes through the whole list: a sector without data or whose
\* collection raises is skipped and the others are still collected. The call raises
\* DataCollectionError exactly when the list is empty or no sector gave data;
\* otherwise it returns the non-empty series of exactly the sectors that gave one.
C11_SkipsSectorsFailsOnlyWhenNone ==
    CollectionOver =>
        /\ code_i = Len(pkd_codes)
        /\ (error # None) <=> (pkd_codes = <<>> \/ results = <<>>)
        /\ error # None => error.type = "DataCollectionError" /\ sector_data = <<>>
        /\ error = None => sector_data = results
        /\ \A k \in DOMAIN results :
              /\ Produces(results[k].code)
              /\ results[k].data = SeriesOf(results[k].code)
              /\ \A j \in DOMAIN results : results[j].code = results[k].code => j = k
        /\ \A k \in DOMAIN pkd_codes :
              /\ pkd_codes[k] \in Keys(results) \/ pkd_codes[k] \in Range(skipped)
              /\ (pkd_codes[k] \notin Keys(results) /\ Produces(pkd_codes[k]))
                    => RaisedFor(pkd_codes[k])
        /\ Keys(results) \subseteq Range(pkd_codes)

\* the collection of a sector that has data raised, the sector was skipped and the
\* next sector of the list was collected
C11_Witness ==
    /\ pc = "calculate_all"
    /\ Len(pkd_codes) = 2
    /\ Produces(pkd_codes[1]) /\ RaisedFor(pkd_codes[1])
    /\ Keys(results) = {pkd_codes[2]}
    /\ skipped = <<pkd_codes[1]>>

Ranked == results_df # None

\* C12: the final table of n sectors has the ranks 1..n, each once, its rows are in
\* non-increasing order of final_index, and its sectors are exactly the requested
\* sectors that gave data, one row each: a requested sector that is in neither
\* table has no row and leaves no gap in the ranks.
C12_DenseRanksInIndexOrder ==
    Ranked =>
        LET rows == results_df.rows
            n == Len(rows)
        IN  /\ { rows[k].rank : k \in 1..n } = 1..n
            /\ \A a, b \in 1..n : rows[a].rank = rows[b].rank => a = b
            /\ \A a, b \in 1..n :
                  rows[a].rank < rows[b].rank =>
                      /\ a < b
                      /\ RLe(rows[b].final_index, rows[a].final_index)
            /\ \A a, b \in 1..n : rows[a].pkd_code = rows[b].pkd_code => a = b
            /\ { rows[k].pkd_code : k \in 1..n } = Keys(results)
            /\ \A c \in Keys(results) : c \in Range(pkd_codes) /\ Produces(c)
            /\ \A c \in Range(pkd_codes) :
                  (Produces(c) /\ ~RaisedFor(c)) => \E k \in 1..n : rows[k].pkd_code = c
            /\ \A k \in 1..n : rows[k].pkd_code # <<"9", "9">>

\* three sectors were requested, the one in neither table among them; the other two
\* are ranked 1 and 2 and the one requested later has the higher index
C12_Witness ==
    /\ Ranked
    /\ Len(pkd_codes) = 3
    /\ <<"9", "9">> \in Range(pkd_codes)
    /\ Len(results_df.rows) = 2
    /\ results_df.rows[1].pkd_code = results[2].code
    /\ results_df.rows[1].final_index # results_df.rows[2].final_index

\* place of a sector in the order in which the sectors were collected and calculated
AggregationOrder(code) == CHOOSE k \in DOMAIN indicators_df.rows : indicators_df.rows[k].pkd_code = code

\* C13: of two sectors with the same final_index, the one that is earlier in the
\* aggregation order has the smaller rank.
C13_StableTieBreak ==
    Ranked =>
        \A a, b \in DOMAIN results_df.rows :
            ( /\ results_df.rows[a].final_index = results_df.rows[b].final_index
              /\ AggregationOrder(results_df.rows[a].pkd_code)
                    < AggregationOrder(results_df.rows[b].pkd_code) )
            => results_df.rows[a].rank < results_df.rows[b].rank

SomeSectorRaises == \E k \in DOMAIN sector_data : Raises(sector_data[k].data)

FirstRaising == CHOOSE k \in DOMAIN sector_data :
                    /\ Raises(sector_data[k].data)
                    /\ \A j \in 1..(k - 1) : ~Raises(sector_data[j].data)

\* C14: if the derivation raises for one sector, calculate_indicators raises
\* CalculationError and returns no table: the sectors before the failing one are
\* not returned, the sectors after it are not computed, and the run reaches neither
\* the classification, the ranking nor the export.
C14_CalculationErrorAbortsBatch ==
    SomeSectorRaises =>
        /\ pc \in {"calculate_all", "exit"}
        /\ Len(calc_results) < FirstRaising
        /\ indicators_df = None
        /\ results_df = None
        /\ ~exported
        /\ pc = "calculate_all" => error = None
        /\ pc = "exit" =>
              /\ error # None
              /\ error.type = "CalculationError"
              /\ error.cause # None
              /\ Len(calc_results) = FirstRaising - 1

\* the second of three sectors raised: the first was computed, the third was not
C14_Witness ==
    /\ pc = "exit"
    /\ error # None
    /\ Len(sector_data) = 3
    /\ FirstRaising = 2
    /\ Len(calc_results) = 1

\* C15: every exception that leaves the engine names the code of the offending
\* sector in its message and carries the root cause.
C15_ErrorsNameSectorAndCause ==
    error # None =>
        /\ error.codes # {}
        /\ error.codes \subseteq Range(pkd_codes)
        /\ error.cause # None

\* C16: two runs of load_sector_data_from_database with the same code, the same
\* years and the same contents of the two tables return the same series: the same
\* records with the same values in the same order.
C16_LoaderIsDeterministic ==
    Len(runs) = MaxRuns => \A k \in 2..MaxRuns : runs[k] = runs[1]

\* both runs returned a series of two records with bankruptcies counted
C16_Witness ==
    /\ Len(runs) = MaxRuns
    /\ runs[1] # None
    /\ Len(runs[1].rows) = 2
    /\ \E k \in 1..2 : runs[1].rows[k].bankruptcies # ZERO

\* the rows of the two tables that belong to a sector: those whose code starts with
\* the first two characters of the sector code (with the whole code when it is shorter)
OwnPrefix(code) == IF Len(code) >= 2 THEN <<code[1], code[2]>> ELSE code

OwnWskRows(code) == SelectSeq(wsk_fin_csv, LAMBDA row : StartsWith(row.PKD, OwnPrefix(code)))

OwnKrzRows(code) == SelectSeq(krz_pkd_csv, LAMBDA row : StartsWith(row.pkd, OwnPrefix(code)))

\* the series, the indicators and the category of a sector computed alone from its
\* own rows
AloneSeries(code) ==
    LoadSector(code, years, columns, wsk_ok, OwnWskRows(code), krz_ok, OwnKrzRows(code))

AloneIndicators(code) == calculate_sector_indicators_of(code, AloneSeries(code).rows, weights)

\* the row of a sector in the table of indicators once classified
AloneRow(code) ==
    LET alone == AloneIndicators(code)
    IN  WithColumn(alone, "category", assign_category(alone.final_index, categories))

SectorsAreIndependent ==
    /\ \A k \in DOMAIN results : results[k].data = AloneSeries(results[k].code)
    /\ \A k \in DOMAIN calc_results : calc_results[k] = AloneIndicators(calc_results[k].pkd_code)
    /\ (pc = "classify_all" /\ indicators_df # None) =>
          \A k \in DOMAIN indicators_df.rows :
              indicators_df.rows[k] = AloneIndicators(indicators_df.rows[k].pkd_code)
    /\ pc \in {"prepare", "export", "exported"} =>
          \A k \in DOMAIN indicators_df.rows :
              indicators_df.rows[k] = AloneRow(indicators_df.rows[k].pkd_code)
    /\ results_df # None =>
          \A k \in DOMAIN results_df.rows :
              results_df.rows[k] =
                  WithColumn(AloneRow(results_df.rows[k].pkd_code), "rank", results_df.rows[k].rank)

GreatestYear(rows) ==
    CHOOSE r \in Range(rows) : \A o \in Range(rows) : o.year <= r.year

Clamped(x) == IF RLt(x, ZERO) THEN ZERO ELSE IF RLt(ONE, x) THEN ONE ELSE x

SizeOf(r) ==
    Clamped(RDiv(RAdd(RAdd(RDiv(r.revenue, Q(10000000)), RDiv(r.assets, Q(20000000))),
                      RDiv(r.num_companies, Q(10000))),
                 Q(3)))

ExampleRecord(r) ==
    /\ r.revenue = Q(10000000)
    /\ r.profit = Q(1000000)
    /\ r.assets = Q(20000000)
    /\ r.debt = Q(8000000)
    /\ r.num_companies = Q(5000)
    /\ r.bankruptcies = Q(50)

\* C18: for every non-empty series, in whatever order its records are given, size,
\* profitability, debt and risk are computed from the record of the greatest year:
\* size = clamp((revenue/10,000,000 + assets/20,000,000 + num_companies/10,000)/3),
\* profitability = clamp(10*profit/revenue), debt = clamp(1 - debt/assets) and
\* risk = clamp(1 - 10*bankruptcies/num_companies), where a ratio whose denominator is
\* zero or negative is taken as 0; the example record gives 1, 3/5, 9/10 and 5/6.
C18_LatestRecordScores ==
    (Calculated /\ data.rows # <<>>) =>
        LET r == GreatestYear(data.rows)
            margin == IF RLt(ZERO, r.revenue) THEN RDiv(r.profit, r.revenue) ELSE ZERO
            ratio == IF RLt(ZERO, r.assets) THEN RDiv(r.debt, r.assets) ELSE ZERO
            rate == IF RLt(ZERO, r.num_companies)
                    THEN RDiv(r.bankruptcies, r.num_companies) ELSE ZERO
        IN  /\ indicators.size_score = SizeOf(r)
            /\ indicators.profitability_score = Clamped(RMul(Q(10), margin))
            /\ indicators.debt_score = Clamped(RSub(ONE, ratio))
            /\ indicators.risk_score = Clamped(RSub(ONE, RMul(Q(10), rate)))
            /\ ExampleRecord(r) =>
                   /\ indicators.profitability_score = ONE
                   /\ indicators.debt_score = Rat(3, 5)
                   /\ indicators.risk_score = Rat(9, 10)
                   /\ indicators.size_score = Rat(5, 6)

\* the example record is the latest one of a series given latest record first
C18_Witness ==
    /\ Calculated
    /\ Len(data.rows) = 2
    /\ data.rows[1].year > data.rows[2].year
    /\ ExampleRecord(data.rows[1])
    /\ data.rows[2].revenue # data.rows[1].revenue
    /\ indicators.size_score = Rat(5, 6)

\* C18 without the denominator rule: wherever the denominators are not zero the
\* three ratios are taken as they are.
C18_RatiosOfAnyDenominator ==
    (Calculated /\ data.rows # <<>>) =>
        LET r == GreatestYear(data.rows)
        IN  /\ indicators.size_score = SizeOf(r)
            /\ r.revenue # ZERO =>
                   indicators.profitability_score =
                       Clamped(RMul(Q(10), RDiv(r.profit, r.revenue)))
            /\ r.assets # ZERO =>
                   indicators.debt_score = Clamped(RSub(ONE, RDiv(r.debt, r.assets)))
            /\ r.num_companies # ZERO =>
                   indicators.risk_score =
                       Clamped(RSub(ONE, RMul(Q(10), RDiv(r.bankruptcies, r.num_companies))))

\* C19: validate_sector_data raises DataProcessingError exactly when one of pkd_code,
\* year, revenue, profit, assets, debt, bankruptcies, num_companies is not a column
\* of the table; otherwise it returns True, also for negative and missing values,
\* which are only logged; the table is never changed.
Validated == pc \in {"validated", "exit"} /\ DOMAIN data = {"columns", "rows"}

EightColumns ==
    {"pkd_code", "year", "revenue", "profit", "assets", "debt", "bankruptcies",
     "num_companies"}

C19_ValidateOutcome ==
    Validated =>
        IF EightColumns \subseteq data.columns
        THEN returned = True /\ error = None
        ELSE returned = None /\ error.type = "DataProcessingError"

C19_ValidateSectorData ==
    [](C19_ValidateOutcome) /\ [][validate_sector_data => data' = data]_vars

\* a table with all columns, a negative revenue and a missing debt was found valid
\* and both findings were logged
C19_Witness ==
    /\ Validated
    /\ EightColumns \subseteq data.columns
    /\ returned = True
    /\ \E k \in DOMAIN data.rows :
           data.rows[k].revenue = Q(-10000000) /\ data.rows[k].debt = NaN
    /\ Len(log) >= 2

\* C20: Weights.validate is True exactly when the sum of the five weights differs from
\* 1 by strictly less than 0.01, that is when 0.99 < sum < 1.01; a False result is
\* not fatal: load_config returns the configuration with the weights of the file
\* unchanged, and only logs a warning.
ConfigLoaded == pc \in {"config_loaded", "exit"} /\ IsDict(data) /\ data.visualization

WeightsOfFile == IF data.weights = None THEN DefaultWeights ELSE data.weights

C20_WeightsValidate ==
    ConfigLoaded =>
        LET w == WeightsOfFile
            sum == RAdd(w.size, RAdd(w.growth, RAdd(w.profitability, RAdd(w.debt, w.risk))))
            within == RLt(Rat(99, 100), sum) /\ RLt(sum, Rat(101, 100))
        IN  /\ validate(w) <=> within
            /\ error = None
            /\ returned # None
            /\ returned.weights = w
            /\ weights = w
            /\ (log = <<>>) <=> within

\* weights that sum to exactly 0.99 were loaded with a warning
C20_Witness ==
    /\ ConfigLoaded
    /\ data.weights # None
    /\ WeightSum(data.weights) = Rat(99, 100)
    /\ returned # None
    /\ returned.weights = data.weights
    /\ Len(log) = 1

\* C21: whenever the five weights are all non-negative and their sum is at most 1,
\* final_index lies in [0, 1], for every series.
WeightsWithinOne ==
    /\ \A f \in DOMAIN weights : RLe(ZERO, weights[f])
    /\ RLe(WeightSum(weights), ONE)

C21_IndexIn01 ==
    (Calculated /\ WeightsWithinOne) => In01(indicators.final_index)

\* weights that sum to exactly 1 and a series of two records with profitability,
\* debt and risk at their upper end
C21_Witness ==
    /\ Calculated
    /\ WeightsWithinOne
    /\ WeightSum(weights) = ONE
    /\ Len(data.rows) = 2
    /\ indicators.profitability_score = ONE
    /\ indicators.debt_score = ONE
    /\ indicators.risk_score = ONE
    /\ RLt(ZERO, indicators.final_index)
    /\ RLt(indicators.final_index, ONE)

\* The record before the latest one: of the greatest year among the other records.
PrecedingYear(rows) ==
    LET latest == GreatestYear(rows)
    IN  CHOOSE r \in Range(rows) \ {latest} :
            \A o \in Range(rows) \ {latest} : o.year <= r.year

GrowthRate(latest, previous) ==
    IF previous = ZERO THEN ZERO ELSE RDiv(RSub(latest, previous), previous)

AverageGrowth(rows) ==
    LET l == GreatestYear(rows)
        p == PrecedingYear(rows)
    IN  RDiv(RAdd(GrowthRate(l.revenue, p.revenue),
                  RAdd(GrowthRate(l.profit, p.profit), GrowthRate(l.assets, p.assets))),
             Q(3))

C23_GrowthNormalization ==
    (Calculated /\ Len(data.rows) >= 2) =>
        LET avg == AverageGrowth(data.rows)
        IN  /\ avg = ZERO => indicators.growth_score = ZERO
            /\ avg = Rat(1, 10) => indicators.growth_score = HALF
            /\ RLe(Rat(1, 5), avg) => indicators.growth_score = ONE

\* C24: for every non-empty series the reported descriptive metrics are the unclamped
\* inputs of the sub-scores of the same result: profitability_score =
\* clamp(10*profit_margin), debt_score = clamp(1 - debt_to_assets), risk_score =
\* clamp(1 - 10*bankruptcy_rate), and with at least two records growth_score is
\* computed from the reported revenue_growth_yoy and profit_growth_yoy (and the rate
\* of assets); the metrics themselves are not confined to [0, 1].
C24_MetricsFeedScores ==
    (Calculated /\ data.rows # <<>>) =>
        /\ indicators.profitability_score = Clamped(RMul(Q(10), indicators.profit_margin))
        /\ indicators.debt_score = Clamped(RSub(ONE, indicators.debt_to_assets))
        /\ indicators.risk_score =
               Clamped(RSub(ONE, RMul(Q(10), indicators.bankruptcy_rate)))
        /\ Len(data.rows) >= 2 =>
               LET l == GreatestYear(data.rows)
                   p == PrecedingYear(data.rows)
                   avg == RDiv(RAdd(indicators.revenue_growth_yoy,
                                    RAdd(indicators.profit_growth_yoy,
                                         GrowthRate(l.assets, p.assets))),
                               Q(3))
               IN  indicators.growth_score =
                       Clamped(RDiv(RAdd(avg, Rat(1, 10)), Rat(3, 10)))

\* a result of two records whose reported metrics are outside [0, 1] while the
\* scores made of them are clamped
C24_Witness ==
    /\ Calculated
    /\ Len(data.rows) = 2
    /\ RLt(indicators.profit_margin, ZERO)
    /\ RLt(ONE, indicators.debt_to_assets)
    /\ RLt(indicators.bankruptcy_rate, ZERO)
    /\ RLt(indicators.profit_growth_yoy, Q(-1))
    /\ indicators.profitability_score = ZERO
    /\ indicators.debt_score = ZERO
    /\ indicators.risk_score = ONE

\* C25: every observed revenue, profit, assets or debt value v is stored as v*1000
\* when v is below 1,000,000 and as v otherwise; an observed company count is stored
\* as the integer part of v, never scaled.
MoneyFields == {"revenue", "profit", "assets", "debt"}

StoresFirst ==
    /\ pc = "fin_store"
    /\ FieldOf(wskaznik) # NoField
    /\ \/ ~HasYear(result_by_year, years[yi])
       \/ result_by_year[IndexOfYear(result_by_year, years[yi])].fields[FieldOf(wskaznik)] = None

C25_UnitScaling ==
    [][ StoresFirst =>
          LET field == FieldOf(wskaznik)
              after == result_by_year'[IndexOfYear(result_by_year', years[yi])].fields[field]
          IN  /\ (field \in MoneyFields /\ value.n < 1000000 * value.d) =>
                    after = Rat(1000 * value.n, value.d)
              /\ (field \in MoneyFields /\ value.n >= 1000000 * value.d) => after = value
              /\ field = "num_companies" => after = Q(value.n \div value.d)
      ]_vars

\* a value of exactly 1,000,000 is about to be stored in a money field
C25_Witness ==
    /\ StoresFirst
    /\ FieldOf(wskaznik) \in MoneyFields
    /\ value = Q(1000000)

\* C26: a row sets at most one field per year; a label with keywords of several
\* fields is classified by the priority revenue, profit, assets, debt, company count;
\* a label with no keyword sets no field; matching ignores the case of the label.
Priority == <<"revenue", "profit", "assets", "debt", "num_companies">>

Keywords ==
    [ revenue |-> { <<"P", "R", "Z", "Y", "C", "H", "O", "D">>,
                    <<"R", "E", "V", "E", "N", "U", "E">>, <<"G", "S">> },
      profit |-> { <<"Z", "Y", "S", "K">>, <<"P", "R", "O", "F", "I", "T">>, <<"N", "P">>,
                   <<"W", "Y", "N", "I", "K">> },
      assets |-> { <<"A", "K", "T", "Y", "W", "A">>, <<"A", "S", "S", "E", "T", "S">> },
      debt |-> { <<"Z", "A", "D", "L_STROKE", "U", "Z_DOT", "E", "N", "I", "E">>,
                 <<"D", "E", "B", "T">>, <<"D", "L_STROKE", "U", "G">> },
      num_companies |-> { <<"L", "I", "C", "Z", "B", "A">>, <<"E", "N">> } ]

\* the fields a keyword of which occurs in the label, whatever the case of the label
FieldsMentioned(label) ==
    LET upper == Upper(label)
    IN  { f \in DOMAIN Keywords : \E kw \in Keywords[f] : Contains(upper, kw) }

\* the first field of the priority order that the label mentions
PriorityField(label) ==
    LET mentioned == FieldsMentioned(label)
        ranks == { i \in DOMAIN Priority : Priority[i] \in mentioned }
    IN  IF ranks = {} THEN NoField
        ELSE Priority[CHOOSE i \in ranks : \A j \in ranks : i <= j]

SameUpToCase(a, b) ==
    /\ Len(a) = Len(b)
    /\ \A i \in DOMAIN a :
          \/ a[i] = b[i]
          \/ \E k \in DOMAIN LowerCase : {a[i], b[i]} = {LowerCase[k], UpperCase[k]}

FieldsBefore(year) ==
    IF HasYear(result_by_year, year)
    THEN result_by_year[IndexOfYear(result_by_year, year)].fields
    ELSE [f \in DOMAIN Keywords |-> None]

FieldsSet(before, after) == { f \in DOMAIN Keywords : after[f] # before[f] }

C26_OneFieldByPriority ==
    [][ pc = "fin_store" =>
          LET set == FieldsSet(FieldsBefore(years[yi]),
                        result_by_year'[IndexOfYear(result_by_year', years[yi])].fields)
          IN  /\ Cardinality(set) <= 1
              /\ Range(wskaznik) \cap Range(LowerCase) = {}
              /\ \E label \in Labels :
                    /\ SameUpToCase(label, wskaznik)
                    /\ set \subseteq {PriorityField(label)}
              /\ \A y \in Range(years) \ {years[yi]} :
                    HasYear(result_by_year, y) =>
                       /\ HasYear(result_by_year', y)
                       /\ FieldsBefore(y) =
                            result_by_year'[IndexOfYear(result_by_year', y)].fields
      ]_vars

\* a label that names debt and, within the same word, the company count is about to
\* set debt in a year that has no debt yet
C26_Witness ==
    /\ pc = "fin_store"
    /\ Cardinality(FieldsMentioned(wskaznik)) = 2
    /\ PriorityField(wskaznik) = "debt"
    /\ FieldsBefore(years[yi]).debt = None
    /\ FieldsBefore(years[yi]).num_companies = None
    /\ \E label \in Labels :
          /\ SameUpToCase(label, wskaznik)
          /\ \E i \in DOMAIN label : label[i] \in Range(LowerCase)

\* C27: load_financial_data returns a record for year y exactly when y is requested,
\* the table has a column y and some prefix-matching row has a parsable value > 0 in
\* that column, whatever the label of that row; zero, negative, empty and unparsable
\* cells count as absent; it returns None exactly when no requested year has a record.
FinancialReturned == pc = "krz_start"

YearsReturned ==
    IF financial_df = None THEN {}
    ELSE { financial_df.rows[i].year : i \in DOMAIN financial_df.rows }

Present(cell) == parse_value(cell) # None /\ RLt(ZERO, parse_value(cell))

HasPresentCell(y) ==
    /\ wsk_ok
    /\ y \in columns
    /\ \E k \in DOMAIN years, r \in DOMAIN wsk_fin_csv :
          /\ years[k] = y
          /\ StartsWith(wsk_fin_csv[r].PKD, pkd_code_short(pkd_code))
          /\ Present(wsk_fin_csv[r].cells[k])

C27_RecordPerPresentYear ==
    FinancialReturned =>
       /\ \A y \in 2020..2023 : y \in YearsReturned <=> HasPresentCell(y)
       /\ financial_df = None <=> \A k \in DOMAIN years : ~HasPresentCell(years[k])
       /\ financial_df # None => Len(financial_df.rows) = Cardinality(YearsReturned)

\* the only present cell of the sector is in a row whose label names no field, next
\* to a zero cell: the record of 2021 is made of defaults alone and 2022 has none
C27_Witness ==
    /\ FinancialReturned
    /\ wsk_fin_csv = << WskRow(<<"0", "1", ".", "1">>, Inne, T800, NaN),
                        WskRow(<<"0", "1", ".", "2">>, Zysk, Text(<<"-", "5">>),
                               Text(<<"b", ".", "d", ".">>)) >>
    /\ YearsReturned = {2021}
    /\ financial_df.rows[1].revenue = Q(1000000)
    /\ financial_df.rows[1].num_companies = Q(1000)

\* C28: in every record of load_financial_data, profit = 0.08 * revenue when revenue
\* or profit was not observed, and debt = 0.4 * assets when debt was not observed;
\* when the record is the latest of the series, profit_margin is 0.08 and
\* profitability_score 0.8 in the first case, debt_to_assets is 0.4 and debt_score
\* 0.6 in the second.
SeriesUpTo(rows, year) == SelectSeq(rows, LAMBDA r : r.year <= year)

IndicatorsUpTo(year) ==
    calculate_sector_indicators_of(pkd_code, SeriesUpTo(financial_df.rows, year),
                                   DefaultWeights)

ProfitImputed(f) == f.revenue = None \/ f.profit = None

DebtImputed(f) == f.debt = None

C28_ImputedRatios ==
    Built =>
       \A i \in DOMAIN result_by_year :
          LET f == result_by_year[i].fields
              r == financial_df.rows[i]
          IN  /\ r.year = result_by_year[i].year
              /\ ProfitImputed(f) =>
                    /\ RMul(Q(100), r.profit) = RMul(Q(8), r.revenue)
                    /\ IndicatorsUpTo(r.year).profit_margin = Rat(8, 100)
                    /\ IndicatorsUpTo(r.year).profitability_score = Rat(8, 10)
              /\ DebtImputed(f) =>
                    /\ RMul(Q(10), r.debt) = RMul(Q(4), r.assets)
                    /\ IndicatorsUpTo(r.year).debt_to_assets = Rat(4, 10)
                    /\ IndicatorsUpTo(r.year).debt_score = Rat(6, 10)

\* revenue was imputed from an observed profit and debt from observed assets, in the
\* later of two records
C28_Witness ==
    /\ Built
    /\ Len(result_by_year) = 2
    /\ \E i \in DOMAIN result_by_year :
          /\ result_by_year[i].year = 2022
          /\ result_by_year[i].fields.revenue = None
          /\ result_by_year[i].fields.profit # None
          /\ result_by_year[i].fields.assets # None
          /\ result_by_year[i].fields.debt = None

\* C29: classification is monotone in the index: for every category list and all
\* values v1 <= v2, the min_score of the category assigned to v1 is at most the
\* min_score of the category assigned to v2, the fallback label counting as lower
\* than every category.
MinScoreOf(name) ==
    CHOOSE m \in { categories[i].min_score : i \in DOMAIN categories } :
        \E i \in DOMAIN categories : categories[i].name = name /\ categories[i].min_score = m

NotHigher(a, b) ==
    \/ a = FALLBACK
    \/ b # FALLBACK /\ RLe(MinScoreOf(a), MinScoreOf(b))

C29_MonotoneClassification ==
    pc = "done" =>
       \A v \in IndexValues :
          /\ RLe(v, indicators.final_index) =>
                NotHigher(assign_category(v, categories), category)
          /\ RLe(indicators.final_index, v) =>
                NotHigher(category, assign_category(v, categories))

\* an unsorted list of three categories, an index in the middle category, and values
\* of the inputs that fall in the fallback, the lower and the higher category
C29_Witness ==
    /\ pc = "done"
    /\ Len(categories) = 3
    /\ RLt(categories[1].min_score, categories[3].min_score)
    /\ RLt(categories[3].min_score, categories[2].min_score)
    /\ category = categories[3].name
    /\ \E v \in IndexValues : assign_category(v, categories) = FALLBACK
    /\ \E v \in IndexValues : assign_category(v, categories) = categories[1].name
    /\ \E v \in IndexValues : assign_category(v, categories) = categories[2].name

\* C30: the resolved revenue is always strictly positive, so the fixed defaults of
\* assets (2,000,000) and debt (800,000) and the zero fallback of profit are never
\* applied: unobserved assets are 1.8 * revenue, unobserved debt is 0.4 * assets, and
\* the only fixed defaults in a record are revenue 1,000,000 (neither revenue nor
\* profit observed) and num_companies 1000.
Observed(f) == { k \in FieldNames : f[k] # None }

FixedDefaults(f) ==
    { k \in FieldNames \ Observed(f) :
        \/ k = "revenue" /\ f.profit = None
        \/ k = "num_companies" }

C30_RevenuePositive ==
    Built =>
       \A i \in DOMAIN result_by_year :
          LET f == result_by_year[i].fields
              r == financial_df.rows[i]
          IN  /\ RLt(ZERO, r.revenue)
              /\ RLt(ZERO, r.assets)
              /\ \A k \in Observed(f) \ {"num_companies"} : RLt(ZERO, f[k]) /\ r[k] = f[k]
              /\ f.profit = None => RLt(ZERO, r.profit)
              /\ f.assets = None => RMul(Q(10), r.assets) = RMul(Q(18), r.revenue)
              /\ f.debt = None => RMul(Q(10), r.debt) = RMul(Q(4), r.assets)
              /\ (f.revenue = None /\ f.profit # None) =>
                    RMul(Q(2), r.revenue) = RMul(Q(25), f.profit)
              /\ "revenue" \in FixedDefaults(f) => r.revenue = Q(1000000)
              /\ ("num_companies" \in FixedDefaults(f) \/ f.num_companies = ZERO) =>
                    r.num_companies = Q(1000)

\* a record built from a row that names no field: revenue and the count are the two
\* fixed defaults, and assets and debt derive from the revenue, not from their own
\* defaults
C30_Witness ==
    /\ Built
    /\ \E i \in DOMAIN result_by_year :
          /\ Observed(result_by_year[i].fields) = {}
          /\ financial_df.rows[i].revenue = Q(1000000)
          /\ financial_df.rows[i].assets = Q(1800000)
          /\ financial_df.rows[i].debt = Q(720000)
          /\ financial_df.rows[i].profit = Q(80000)
          /\ financial_df.rows[i].num_companies = Q(1000)
====
